---- MODULE Spec2Model ----
(***************************************************************************)
(* Model of the tool-calling agent of src/simple-agent-memory: the         *)
(* tool-call extractor (BaseAgent.extract_tool_calls), the tool executor   *)
(* (BaseAgent.execute_tool_call) and the orchestrator                      *)
(* (BaseAgent.completion), on the agent BaseAgent(tools=[test_add]).       *)
(*                                                                         *)
(* Text is a sequence of atoms.  An atom is one character ("{", " ", ...)  *)
(* or a run of letters that no pattern splits ("name", "txt",              *)
(* "<tool_call>").  No atom is a concatenation of other atoms, so two      *)
(* texts are the same string exactly when they are the same sequence.      *)
(* Regular expressions and json.loads are evaluated atom by atom.          *)
(***************************************************************************)
EXTENDS Integers, Sequences, FiniteSets, TLC

(***************************************************************************)
(* Atoms                                                                   *)
(***************************************************************************)
DQ == "\""
\* the backtick character (the lexer of TLA+ has no literal for it)
BT == "BACKTICK"
SP == " "
NL == "\n"
LBRACE == "{"
RBRACE == "}"
LBRACK == "["
RBRACK == "]"
LPAR == "("
RPAR == ")"
COLON == ":"
COMMA == ","
OPENTAG == "<tool_call>"
CLOSETAG == "</tool_call>"

\* \s of the re module, on the atoms the model uses
IsSpace(c) == c \in {SP, NL}

DigitAtoms == <<"0", "1", "2", "3", "4", "5", "6", "7", "8", "9">>
Digits == {DigitAtoms[i] : i \in 1..10}

\* Python values are kept as their canonical JSON text (no insignificant
\* whitespace): <<DQ, ..., DQ>> a str, <<"{", ..., "}">> a dict,
\* <<"[", ..., "]">> a list, digits an int, <<"null">> None.
EmptyDict == <<LBRACE, RBRACE>>
PyStr(toks) == <<DQ>> \o toks \o <<DQ>>
IsStr(v) == Len(v) >= 2 /\ v[1] = DQ
IsDict(v) == Len(v) >= 2 /\ v[1] = LBRACE
IsList(v) == Len(v) >= 2 /\ v[1] = LBRACK
IsInt(v) == Len(v) >= 1 /\ v[1] \in Digits
StrBody(v) == SubSeq(v, 2, Len(v) - 1)

(***************************************************************************)
(* Cursor helpers: a cursor is a position in the text, 0 is "no match".    *)
(***************************************************************************)
RECURSIVE SkipSpace(_, _)
SkipSpace(t, p) ==
    IF p = 0 THEN 0
    ELSE IF p <= Len(t) /\ IsSpace(t[p]) THEN SkipSpace(t, p + 1)
    ELSE p

Ch(t, p, c) == IF p # 0 /\ p <= Len(t) /\ t[p] = c THEN p + 1 ELSE 0

Lit(t, p, lit) ==
    IF p # 0 /\ p + Len(lit) - 1 <= Len(t) /\ SubSeq(t, p, p + Len(lit) - 1) = lit
    THEN p + Len(lit) ELSE 0

\* first position q >= p holding an atom of stop, Len(t)+1 when there is none
Find(t, p, stop) ==
    IF \E q \in p..Len(t) : t[q] \in stop
    THEN CHOOSE q \in p..Len(t) :
             t[q] \in stop /\ \A r \in p..(q - 1) : t[r] \notin stop
    ELSE Len(t) + 1

(***************************************************************************)
(* json.loads                                                              *)
(***************************************************************************)
\* The scanner recurses once per nested object or array and the interpreter
\* bounds the recursion: RecursionLimit stands for that bound, scaled down so
\* that a text can exceed it.
RecursionLimit == 3

\* ok: a value was read; deep: RecursionError, the nesting exceeds the limit;
\* neither: json.JSONDecodeError
JFail == [ok |-> FALSE, deep |-> FALSE, next |-> 0, val |-> <<>>]
JDeep == [ok |-> FALSE, deep |-> TRUE, next |-> 0, val |-> <<>>]
JOk(n, v) == [ok |-> TRUE, deep |-> FALSE, next |-> n, val |-> v]

JString(t, p) ==
    LET q == Find(t, p + 1, {DQ})
    IN  IF p = 0 \/ p > Len(t) THEN JFail
        ELSE IF t[p] # DQ \/ q > Len(t) THEN JFail
        ELSE IF \E i \in (p + 1)..(q - 1) : t[i] = NL THEN JFail
        ELSE JOk(q + 1, SubSeq(t, p, q))

RECURSIVE JDigitsEnd(_, _)
JDigitsEnd(t, p) ==
    IF p <= Len(t) /\ t[p] \in Digits THEN JDigitsEnd(t, p + 1) ELSE p

\* depth is the number of objects and arrays open around position p
RECURSIVE JValue(_, _, _), JMembers(_, _, _, _), JElements(_, _, _, _)
JValue(t, p, depth) ==
    IF p = 0 \/ p > Len(t) THEN JFail
    ELSE IF t[p] = DQ THEN JString(t, p)
    ELSE IF t[p] = "0" THEN JOk(p + 1, <<"0">>)
    ELSE IF t[p] \in Digits
         THEN JOk(JDigitsEnd(t, p), SubSeq(t, p, JDigitsEnd(t, p) - 1))
    ELSE IF t[p] = "null" THEN JOk(p + 1, <<"null">>)
    ELSE IF t[p] \in {LBRACE, LBRACK} /\ depth >= RecursionLimit THEN JDeep
    ELSE IF t[p] = LBRACE
         THEN LET q == SkipSpace(t, p + 1)
              IN  IF q <= Len(t) /\ t[q] = RBRACE THEN JOk(q + 1, EmptyDict)
                  ELSE JMembers(t, q, <<LBRACE>>, depth + 1)
    ELSE IF t[p] = LBRACK
         THEN LET q == SkipSpace(t, p + 1)
              IN  IF q <= Len(t) /\ t[q] = RBRACK
                  THEN JOk(q + 1, <<LBRACK, RBRACK>>)
                  ELSE JElements(t, q, <<LBRACK>>, depth + 1)
    ELSE JFail

\* at p: a key is expected; acc is the canonical text so far
JMembers(t, p, acc, depth) ==
    LET k == JString(t, p)
        c == Ch(t, SkipSpace(t, k.next), COLON)
        v == JValue(t, SkipSpace(t, c), depth)
        e == SkipSpace(t, v.next)
        acc2 == acc \o k.val \o <<COLON>> \o v.val
    IN  IF ~k.ok \/ c = 0 THEN JFail
        ELSE IF ~v.ok THEN v
        ELSE IF e > Len(t) THEN JFail
        ELSE IF t[e] = RBRACE THEN JOk(e + 1, acc2 \o <<RBRACE>>)
        ELSE IF t[e] = COMMA
             THEN JMembers(t, SkipSpace(t, e + 1), acc2 \o <<COMMA>>, depth)
        ELSE JFail

JElements(t, p, acc, depth) ==
    LET v == JValue(t, p, depth)
        e == SkipSpace(t, v.next)
        acc2 == acc \o v.val
    IN  IF ~v.ok THEN v
        ELSE IF e > Len(t) THEN JFail
        ELSE IF t[e] = RBRACK THEN JOk(e + 1, acc2 \o <<RBRACK>>)
        ELSE IF t[e] = COMMA
             THEN JElements(t, SkipSpace(t, e + 1), acc2 \o <<COMMA>>, depth)
        ELSE JFail

\* json.loads(s): one value, whitespace around it, nothing else
json_loads(s) ==
    LET v == JValue(s, SkipSpace(s, 1), 0)
    IN  IF ~v.ok THEN v
        ELSE IF SkipSpace(s, v.next) = Len(s) + 1 THEN v
        ELSE JFail

\* the end of the value at p of a canonical text
RECURSIVE ValueEnd(_, _, _)
ValueEnd(c, p, open) ==
    IF c[p] = DQ
    THEN LET q == Find(c, p + 1, {DQ})
         IN  IF open = 0 THEN q ELSE ValueEnd(c, q + 1, open)
    ELSE IF c[p] \in {LBRACE, LBRACK} THEN ValueEnd(c, p + 1, open + 1)
    ELSE IF c[p] \in {RBRACE, RBRACK}
         THEN IF open = 1 THEN p ELSE ValueEnd(c, p + 1, open - 1)
    ELSE IF open = 0 /\ (p = Len(c) \/ c[p + 1] \in {COMMA, RBRACE, RBRACK}) THEN p
    ELSE ValueEnd(c, p + 1, open)

\* the (key, value) pairs of a dict value and the items of a list value
RECURSIVE DictItems(_, _)
DictItems(d, p) ==
    IF d[p] = RBRACE THEN <<>>
    ELSE LET k == ValueEnd(d, p, 0)
             v == ValueEnd(d, k + 2, 0)
         IN  <<<<SubSeq(d, p, k), SubSeq(d, k + 2, v)>>>> \o
             DictItems(d, IF d[v + 1] = COMMA THEN v + 2 ELSE v + 1)

RECURSIVE ListItems(_, _)
ListItems(l, p) ==
    IF l[p] = RBRACK THEN <<>>
    ELSE LET v == ValueEnd(l, p, 0)
         IN  <<SubSeq(l, p, v)>> \o
             ListItems(l, IF l[v + 1] = COMMA THEN v + 2 ELSE v + 1)

\* key in d, d[key] (the last pair wins, as in a Python dict)
HasKey(d, key) ==
    LET its == DictItems(d, 2)
    IN  \E i \in 1..Len(its) : its[i][1] = PyStr(<<key>>)

GetKey(d, key) ==
    LET its == DictItems(d, 2)
        i == CHOOSE j \in 1..Len(its) :
                 /\ its[j][1] = PyStr(<<key>>)
                 /\ \A m \in (j + 1)..Len(its) : its[m][1] # PyStr(<<key>>)
    IN  its[i][2]

(***************************************************************************)
(* The five regular expressions of extract_tool_calls.  Match(k, t, p) is  *)
(* the attempt of pattern k at position p of t: end = 0 when it fails,     *)
(* otherwise end is the position after the match and g1, g2 its groups.    *)
(***************************************************************************)
NoMatch == [end |-> 0, g1 |-> <<>>, g2 |-> <<>>]

QNAME == <<DQ, "name", DQ>>
QARGS == <<DQ, "arguments", DQ>>

\* (?<!\[) at p and (?!\]) at p
NotAfterBracket(t, p) == p = 1 \/ t[p - 1] # LBRACK
NotBeforeBracket(t, p) == p > Len(t) \/ t[p] # RBRACK

\* the elements of a pattern, in the order the pattern has them
WS == <<"ws">>                            \* \s*
CH(c) == <<"ch", c>>                      \* one character
LIT(l) == <<"lit", l>>                    \* "name", "arguments"
QUOTED == <<"quoted">>                    \* "([^"]+)"
OBJECT == <<"object">>                    \* (\{[^}]*\})
LAZY(closer, dotall) == <<"lazy", closer, dotall>>   \* (\{.*?\}) before \s*closer

\* (?<!\[)\s*\{\s*"name"\s*:\s*"([^"]+)"\s*,\s*"arguments"\s*:\s*(\{[^}]*\})\s*\}(?!\])
standalone_pattern ==
    << WS, CH(LBRACE), WS, LIT(QNAME), WS, CH(COLON), WS, QUOTED, WS, CH(COMMA),
       WS, LIT(QARGS), WS, CH(COLON), WS, OBJECT, WS, CH(RBRACE) >>

\* (?<!\[)\s*\{\s*"name"\s*:\s*"([^"]+)"\s*\}(?!\])
simple_standalone_pattern ==
    << WS, CH(LBRACE), WS, LIT(QNAME), WS, CH(COLON), WS, QUOTED, WS, CH(RBRACE) >>

\* \["([^"]+)"\]\(\s*(\{.*?\})\s*\)
new_format_pattern ==
    << CH(LBRACK), QUOTED, CH(RBRACK), CH(LPAR), WS, LAZY(RPAR, FALSE), WS, CH(RPAR) >>

\* <tool_call>\s*(\{.*?\})\s*</tool_call>   with re.DOTALL
xml_pattern ==
    << CH(OPENTAG), WS, LAZY(CLOSETAG, TRUE), WS, CH(CLOSETAG) >>

\* what an element does at p: where the match goes on (0: it fails) and
\* the group it captures, if it has one; e is the last position the element
\* takes, and the group leaves out the last trim positions before it
Moved(n) == [next |-> n, cap |-> <<>>]
Captured(t, from, e, trim) ==
    IF e = 0 THEN Moved(0)
    ELSE [next |-> e + 1, cap |-> <<SubSeq(t, from, e - trim)>>]

\* "([^"]+)" with the opening quote at p: the position of the closing quote
QuotedClose(t, p, e) == IF e > p + 1 /\ e <= Len(t) THEN e ELSE 0
QuotedEnd(t, p) ==
    IF Ch(t, p, DQ) = 0 THEN 0 ELSE QuotedClose(t, p, Find(t, p + 1, {DQ}))

\* \{[^}]*\} with the brace at p: the position of the first closing brace
ObjectClose(t, k) == IF k <= Len(t) THEN k ELSE 0
ObjectEnd(t, p) ==
    IF Ch(t, p, LBRACE) = 0 THEN 0 ELSE ObjectClose(t, Find(t, p + 1, {RBRACE}))

\* (\{.*?\})\s*<closer> continued at q, the brace being at an earlier
\* position: the first closing brace that whitespace and the closer follow;
\* without DOTALL the dot does not cross a newline.  0 when there is none.
ClosesAt(t, q, closer) ==
    t[q] = RBRACE /\ Ch(t, SkipSpace(t, q + 1), closer) # 0

FirstClose(t, q, closer) ==
    CHOOSE c \in q..Len(t) :
        /\ ClosesAt(t, c, closer)
        /\ \A r \in q..(c - 1) : ~ClosesAt(t, r, closer)

NoNewline(t, q, c, dotall) ==
    IF ~dotall /\ \E r \in q..(c - 1) : t[r] = NL THEN 0 ELSE c

LazyClose(t, q, closer, dotall) ==
    IF \E c \in q..Len(t) : ClosesAt(t, c, closer)
    THEN NoNewline(t, q, FirstClose(t, q, closer), dotall)
    ELSE 0

LazyEnd(t, p, closer, dotall) ==
    IF Ch(t, p, LBRACE) = 0 THEN 0 ELSE LazyClose(t, p + 1, closer, dotall)

Step(t, p, el) ==
    CASE el[1] = "ws" -> Moved(SkipSpace(t, p))
      [] el[1] = "ch" -> Moved(Ch(t, p, el[2]))
      [] el[1] = "lit" -> Moved(Lit(t, p, el[2]))
      [] el[1] = "quoted" -> Captured(t, p + 1, QuotedEnd(t, p), 1)
      [] el[1] = "object" -> Captured(t, p, ObjectEnd(t, p), 0)
      [] el[1] = "lazy" -> Captured(t, p, LazyEnd(t, p, el[2], el[3]), 0)

Group(caps, n) == IF Len(caps) >= n THEN caps[n] ELSE <<>>

\* the elements one after the other from p on; none of them has a second
\* way to match once it has matched
RECURSIVE Run(_, _, _, _)
RECURSIVE Advance(_, _, _, _, _)
Run(els, t, p, caps) ==
    IF p = 0 THEN NoMatch
    ELSE IF els = <<>>
    THEN [end |-> p, g1 |-> Group(caps, 1), g2 |-> Group(caps, 2)]
    ELSE Advance(els, t, p, caps, Step(t, p, Head(els)))

Advance(els, t, p, caps, r) ==
    Run(Tail(els), t, r.next, caps \o r.cap)

LooksAhead(t, m) == IF m.end # 0 /\ NotBeforeBracket(t, m.end) THEN m ELSE NoMatch

Match1(t, p) ==
    IF NotAfterBracket(t, p) THEN LooksAhead(t, Run(standalone_pattern, t, p, <<>>))
    ELSE NoMatch

Match2(t, p) ==
    IF NotAfterBracket(t, p)
    THEN LooksAhead(t, Run(simple_standalone_pattern, t, p, <<>>))
    ELSE NoMatch

\* last position of lo..hi that holds no whitespace, 0 when there is none
RECURSIVE LastNonSpace(_, _, _)
LastNonSpace(t, lo, hi) ==
    IF hi < lo THEN 0
    ELSE IF IsSpace(t[hi]) THEN LastNonSpace(t, lo, hi - 1)
    ELSE hi

\* \[\s*\{[^\[\]]*"name"[^\[\]]*\}\s*\]   (no group: g1 is the whole match)
\* Neither class crosses a bracket, so the match ends at the first bracket
\* after the brace, which has to be the closing one: a is the position after
\* the brace, r the bracket, z the last non-space position before it.
Json3(t, p, a, r, z) ==
    IF /\ r <= Len(t)
       /\ t[r] = RBRACK
       /\ z # 0
       /\ t[z] = RBRACE
       /\ \E n \in a..(z - 3) : SubSeq(t, n, n + 2) = QNAME
    THEN [end |-> r + 1, g1 |-> SubSeq(t, p, r), g2 |-> <<>>]
    ELSE NoMatch

Json2(t, p, a, r) == Json3(t, p, a, r, LastNonSpace(t, a, r - 1))

Json1(t, p, a) ==
    IF a = 0 THEN NoMatch ELSE Json2(t, p, a, Find(t, a, {LBRACK, RBRACK}))

Match3(t, p) == Json1(t, p, Ch(t, SkipSpace(t, Ch(t, p, LBRACK)), LBRACE))

Match4(t, p) == Run(new_format_pattern, t, p, <<>>)

Match5(t, p) == Run(xml_pattern, t, p, <<>>)

Match(k, t, p) ==
    CASE k = 1 -> Match1(t, p)
      [] k = 2 -> Match2(t, p)
      [] k = 3 -> Match3(t, p)
      [] k = 4 -> Match4(t, p)
      [] k = 5 -> Match5(t, p)

\* re.findall(pattern k, t): the matches from left to right, not overlapping;
\* at is where the match starts
\* the positions where pattern k matches
Starts(k, t) == {s \in 1..Len(t) : Match(k, t, s).end # 0}

First(ahead) == CHOOSE s \in ahead : \A r \in ahead : s <= r

RECURSIVE Scan(_, _, _, _)
RECURSIVE ScanOn(_, _, _, _, _)
RECURSIVE ScanAt(_, _, _, _, _)
Scan(k, t, p, starts) == ScanOn(k, t, p, starts, {s \in starts : s >= p})

ScanOn(k, t, p, starts, ahead) ==
    IF ahead = {} THEN <<>>
    ELSE ScanAt(k, t, starts, First(ahead), Match(k, t, First(ahead)))

ScanAt(k, t, starts, s, m) ==
    <<[at |-> s, g1 |-> m.g1, g2 |-> m.g2]>> \o Scan(k, t, m.end, starts)

FindAll(k, t, p) == Scan(k, t, p, Starts(k, t))

(***************************************************************************)
(* extract_tool_calls.  A call is the dict {'name', 'arguments'} the code  *)
(* appends; pat, at and idx record which pattern produced it, where its    *)
(* match starts and its place in the parsed list.  Other keys of a parsed  *)
(* object are not kept.                                                    *)
(***************************************************************************)
MkCall(n, a, k, p, i) ==
    [name |-> n, arguments |-> a, pat |-> k, at |-> p, idx |-> i]

\* message.replace(backtick, '"')
normalize(message) ==
    [i \in 1..Len(message) |-> IF message[i] = BT THEN DQ ELSE message[i]]

RECURSIVE Concat(_)
Concat(ss) == IF ss = <<>> THEN <<>> ELSE Head(ss) \o Concat(Tail(ss))

\* the dict a parsed object becomes once 'arguments' is ensured
CallOfDict(d, k, p, i) ==
    MkCall(GetKey(d, "name"),
           IF HasKey(d, "arguments") THEN GetKey(d, "arguments") ELSE EmptyDict,
           k, p, i)

IsCallDict(v) == IsDict(v) /\ HasKey(v, "name")

\* pattern 1: json.loads(args_str) unless it is '{}'; {} on JSONDecodeError
StandaloneArgs(args_str) ==
    IF args_str = EmptyDict THEN EmptyDict
    ELSE IF json_loads(args_str).ok THEN json_loads(args_str).val
    ELSE EmptyDict

Pattern1Calls(ms) ==
    [i \in 1..Len(ms) |->
        MkCall(PyStr(ms[i].g1), StandaloneArgs(ms[i].g2), 1, ms[i].at, 1)]

\* pattern 2 without the test for a name found before
RECURSIVE AddSimpleUnchecked(_, _)
AddSimpleUnchecked(calls, ms) ==
    IF ms = <<>> THEN calls
    ELSE AddSimpleUnchecked(
             Append(calls, MkCall(PyStr(Head(ms).g1), EmptyDict, 2, Head(ms).at, 1)),
             Tail(ms))

\* pattern 2: only names that no call found so far has
RECURSIVE AddSimple(_, _)
AddSimple(calls, ms) ==
    IF ms = <<>> THEN calls
    ELSE IF \E i \in 1..Len(calls) : calls[i].name = PyStr(Head(ms).g1)
         THEN AddSimple(calls, Tail(ms))
    ELSE AddSimple(Append(calls,
                          MkCall(PyStr(Head(ms).g1), EmptyDict, 2, Head(ms).at, 1)),
                   Tail(ms))

\* the items of a parsed list that are dicts with a 'name', in list order
RECURSIVE ListCalls(_, _, _, _)
ListCalls(items, k, p, i) ==
    IF i > Len(items) THEN <<>>
    ELSE (IF IsCallDict(items[i]) THEN <<CallOfDict(items[i], k, p, i)>> ELSE <<>>)
         \o ListCalls(items, k, p, i + 1)

\* pattern 3: the match is parsed whole; a list gives its call items, a
\* dict with a 'name' gives itself, a JSONDecodeError gives nothing
ArrayCalls(m) ==
    LET parsed == json_loads(m.g1)
    IN  IF ~parsed.ok THEN <<>>
        ELSE IF IsList(parsed.val) THEN ListCalls(ListItems(parsed.val, 2), 3, m.at, 1)
        ELSE IF IsCallDict(parsed.val) THEN <<CallOfDict(parsed.val, 3, m.at, 1)>>
        ELSE <<>>

\* pattern 4: the parsed object when it is a dict with a 'name'; on
\* JSONDecodeError the bracket name with no arguments
BracketCalls(m) ==
    LET parsed == json_loads(m.g2)
    IN  IF parsed.ok
        THEN IF IsCallDict(parsed.val) THEN <<CallOfDict(parsed.val, 4, m.at, 1)>>
             ELSE <<>>
        ELSE <<MkCall(PyStr(m.g1), EmptyDict, 4, m.at, 1)>>

\* pattern 5: the parsed object when it is a dict with a 'name'
TaggedCalls(m) ==
    LET parsed == json_loads(m.g1)
    IN  IF ~parsed.ok THEN <<>>
        ELSE IF IsCallDict(parsed.val) THEN <<CallOfDict(parsed.val, 5, m.at, 1)>>
        ELSE <<>>

Pattern3Calls(ms) == Concat([i \in 1..Len(ms) |-> ArrayCalls(ms[i])])

Pattern4Calls(ms) == Concat([i \in 1..Len(ms) |-> BracketCalls(ms[i])])

Pattern5Calls(ms) == Concat([i \in 1..Len(ms) |-> TaggedCalls(ms[i])])

\* the except clauses name json.JSONDecodeError only: a RecursionError of
\* any json.loads leaves extract_tool_calls
Escapes(ms1, ms3, ms4, ms5) ==
    \/ \E i \in 1..Len(ms1) : ms1[i].g2 # EmptyDict /\ json_loads(ms1[i].g2).deep
    \/ \E i \in 1..Len(ms3) : json_loads(ms3[i].g1).deep
    \/ \E i \in 1..Len(ms4) : json_loads(ms4[i].g2).deep
    \/ \E i \in 1..Len(ms5) : json_loads(ms5[i].g1).deep

\* the calls of the five patterns with the tagged calls put first
CollectTaggedFirst(standalone_matches, simple_matches, matches, new_matches, xml_matches) ==
    IF Escapes(standalone_matches, matches, new_matches, xml_matches)
    THEN [raised |-> TRUE, calls |-> <<>>]
    ELSE [raised |-> FALSE,
          calls |-> Pattern5Calls(xml_matches)
                    \o AddSimple(Pattern1Calls(standalone_matches), simple_matches)
                    \o Pattern3Calls(matches)
                    \o Pattern4Calls(new_matches)]

\* tool_calls after the five loops, each appending to it in turn.
\* raised: an exception leaves the function; calls: the list it returns
\* otherwise
Collect(standalone_matches, simple_matches, matches, new_matches, xml_matches) ==
    IF Escapes(standalone_matches, matches, new_matches, xml_matches)
    THEN [raised |-> TRUE, calls |-> <<>>]
    ELSE [raised |-> FALSE,
          calls |-> AddSimple(Pattern1Calls(standalone_matches), simple_matches)
                    \o Pattern3Calls(matches)
                    \o Pattern4Calls(new_matches)
                    \o Pattern5Calls(xml_matches)]

\* the five re.findall on the normalized message
ExtractFrom(normalized_message) ==
    Collect(FindAll(1, normalized_message, 1),
            FindAll(2, normalized_message, 1),
            FindAll(3, normalized_message, 1),
            FindAll(4, normalized_message, 1),
            FindAll(5, normalized_message, 1))

extract_tool_calls(message) == ExtractFrom(normalize(message))

(***************************************************************************)
(* str() and repr() of a Python value, int arithmetic on digit atoms       *)
(***************************************************************************)
\* repr(): ', ' and ': ' between items, single quotes, None
RECURSIVE ReprFrom(_, _, _)
ReprFrom(v, i, instr) ==
    IF i > Len(v) THEN <<>>
    ELSE IF v[i] = DQ THEN <<"'">> \o ReprFrom(v, i + 1, ~instr)
    ELSE IF instr THEN <<v[i]>> \o ReprFrom(v, i + 1, instr)
    ELSE IF v[i] = COMMA THEN <<COMMA, SP>> \o ReprFrom(v, i + 1, instr)
    ELSE IF v[i] = COLON THEN <<COLON, SP>> \o ReprFrom(v, i + 1, instr)
    ELSE IF v[i] = "null" THEN <<"None">> \o ReprFrom(v, i + 1, instr)
    ELSE <<v[i]>> \o ReprFrom(v, i + 1, instr)

PyRepr(v) == ReprFrom(v, 1, FALSE)

\* str(v): a str is itself, anything else its repr
PyToStr(v) == IF IsStr(v) THEN StrBody(v) ELSE PyRepr(v)

DigitVal(c) == (CHOOSE i \in 1..10 : DigitAtoms[i] = c) - 1

RECURSIVE IntVal(_)
IntVal(v) ==
    IF v = <<>> THEN 0
    ELSE 10 * IntVal(SubSeq(v, 1, Len(v) - 1)) + DigitVal(v[Len(v)])

RECURSIVE IntStr(_)
IntStr(n) ==
    IF n < 10 THEN <<DigitAtoms[n + 1]>>
    ELSE IntStr(n \div 10) \o <<DigitAtoms[(n % 10) + 1]>>

\* x.strip()
RECURSIVE strip(_)
strip(x) ==
    IF x = <<>> THEN x
    ELSE IF IsSpace(Head(x)) THEN strip(Tail(x))
    ELSE IF IsSpace(x[Len(x)]) THEN strip(SubSeq(x, 1, Len(x) - 1))
    ELSE x

(***************************************************************************)
(* The registry and execute_tool_call                                      *)
(***************************************************************************)
\* what a call evaluates to: a returned value, or an exception with its text
Returns(v) == [raised |-> FALSE, value |-> v]
Raises(msg) == [raised |-> TRUE, value |-> msg]

TypeErrorText == <<"TypeError">>

\* the keys of a dict value, as atoms
KeysOf(d) == {StrBody(DictItems(d, 2)[i][1]) : i \in 1..Len(DictItems(d, 2))}

\* def test_add(a: int, b: int) -> int: return a + b
\* ints add, strs and lists concatenate, any other pair is a TypeError
test_add(a, b) ==
    IF IsInt(a) /\ IsInt(b) THEN Returns(IntStr(IntVal(a) + IntVal(b)))
    ELSE IF IsStr(a) /\ IsStr(b) THEN Returns(PyStr(StrBody(a) \o StrBody(b)))
    ELSE IF IsList(a) /\ IsList(b)
         THEN Returns(IF Len(a) = 2 THEN b
                      ELSE IF Len(b) = 2 THEN a
                      ELSE SubSeq(a, 1, Len(a) - 1) \o <<COMMA>> \o Tail(b))
    ELSE Raises(TypeErrorText)

\* BaseAgent(tools=[test_add]).tool_mapping
ToolNames == {PyStr(<<"test_add">>)}

\* tool_function(**arguments) for the registered function called name:
\* the arguments have to be a mapping with exactly the parameters a and b
CallTool(name, arguments) ==
    IF ~IsDict(arguments) THEN Raises(TypeErrorText)
    ELSE IF KeysOf(arguments) # {<<"a">>, <<"b">>} THEN Raises(TypeErrorText)
    ELSE test_add(GetKey(arguments, "a"), GetKey(arguments, "b"))

\* a descriptor handed to execute_tool_call: whether it is a dict, which of
\* the two keys it has, and their values
Callinfo(c) ==
    [is_dict |-> TRUE, has_name |-> TRUE, has_arguments |-> TRUE,
     name |-> c.name, arguments |-> c.arguments]

\* a dict or a list cannot be looked up in tool_mapping
Unhashable(v) == IsDict(v) \/ IsList(v)

execute_tool_call(mapping, callinfo) ==
    IF ~callinfo.is_dict \/ ~callinfo.has_name
    THEN Returns(<<"Error: Invalid tool call format">>)
    ELSE LET tool_name == callinfo.name
             arguments == IF callinfo.has_arguments THEN callinfo.arguments
                          ELSE EmptyDict
         IN  IF Unhashable(tool_name) THEN Raises(TypeErrorText)
             ELSE IF tool_name \notin mapping
                  THEN Returns(<<"Error: Unknown tool '">> \o PyToStr(tool_name)
                               \o <<"'">>)
             ELSE LET r == CallTool(tool_name, arguments)
                  IN  IF r.raised
                      THEN Returns(<<"Error executing ">> \o PyToStr(tool_name)
                                   \o <<": ">> \o r.value)
                      ELSE Returns(PyToStr(r.value))

(***************************************************************************)
(* Texts the model backend can reply with: up to MaxFrags fragments, each  *)
(* a piece of free text, a call in one of the documented forms, or a       *)
(* malformed call.                                                         *)
(***************************************************************************)
MaxFrags == 2

Q(x) == <<DQ, x, DQ>>

\* {"name": "n", "arguments": A}
EncStandalone(n, A) ==
    <<LBRACE>> \o QNAME \o <<COLON, SP>> \o Q(n) \o <<COMMA, SP>>
    \o QARGS \o <<COLON, SP>> \o A \o <<RBRACE>>

\* {"name": "n"}
EncNameOnly(n) == <<LBRACE>> \o QNAME \o <<COLON, SP>> \o Q(n) \o <<RBRACE>>

\* [item, item, ...]
RECURSIVE JoinItems(_)
JoinItems(items) ==
    IF Len(items) = 1 THEN items[1]
    ELSE items[1] \o <<COMMA, SP>> \o JoinItems(Tail(items))

EncArray(items) == <<LBRACK>> \o JoinItems(items) \o <<RBRACK>>

\* ["n"]({"name": "n", "arguments": A})
EncBracket(n, A) ==
    <<LBRACK>> \o Q(n) \o <<RBRACK, LPAR>> \o EncStandalone(n, A) \o <<RPAR>>

\* <tool_call>, the object on a line of its own, </tool_call>
EncTagged(obj) == <<OPENTAG, NL>> \o obj \o <<NL, CLOSETAG>>

\* <tool_call>{...}</tool_call>
EncTaggedInline(obj) == <<OPENTAG>> \o obj \o <<CLOSETAG>>

ArgsEmpty == EmptyDict
ArgsFlat ==
    <<LBRACE>> \o Q("a") \o <<COLON, SP, "1", COMMA, SP>> \o Q("b")
    \o <<COLON, SP, "2", RBRACE>>
ArgsNested ==
    <<LBRACE>> \o Q("a") \o <<COLON, SP, LBRACE>> \o Q("b")
    \o <<COLON, SP, "1", RBRACE, RBRACE>>
ArgsBrace == <<LBRACE>> \o Q("a") \o <<COLON, SP>> \o Q(RBRACE) \o <<RBRACE>>
ArgsTick == <<LBRACE>> \o Q("a") \o <<COLON, SP>> \o Q(BT) \o <<RBRACE>>

\* the logical calls: a name and the text of its arguments object
Registered == "test_add"
Unregistered == "get_current_time"

LogicalCalls ==
    { <<Registered, ArgsFlat>>, <<Unregistered, ArgsEmpty>>,
      <<Registered, ArgsNested>>, <<Registered, ArgsBrace>>,
      <<Registered, ArgsTick>> }

\* the arguments an object text denotes
Denotes(A) == json_loads(A).val

FreePieces == { <<"txt">>, <<SP>> }

StandalonePieces == { EncStandalone(c[1], c[2]) : c \in LogicalCalls }

NameOnlyPieces == { EncNameOnly(Registered), EncNameOnly(Unregistered) }

ArrayPieces ==
    { EncArray(<<EncStandalone(Registered, ArgsFlat)>>),
      EncArray(<<EncNameOnly(Unregistered), EncStandalone(Registered, ArgsFlat)>>) }

BracketPieces == { EncBracket(Registered, ArgsFlat) }

TaggedPieces ==
    { EncTaggedInline(EncStandalone(Unregistered, ArgsEmpty)),
      EncTagged(EncStandalone(Registered, ArgsFlat)) }

\* fragments that match a pattern and are not a well-formed call
BadObject == <<LBRACE, "a", RBRACE>>

\* {"a": {"a": ... {"a": 1} ... }} with n objects
RECURSIVE Nest(_)
Nest(n) ==
    IF n = 0 THEN <<"1">>
    ELSE <<LBRACE>> \o Q("a") \o <<COLON>> \o Nest(n - 1) \o <<RBRACE>>

BadStandalone == EncStandalone(Registered, BadObject)
BadBracket == <<LBRACK>> \o Q(Registered) \o <<RBRACK, LPAR>> \o BadObject \o <<RPAR>>
BadTagged == EncTaggedInline(<<LBRACE>> \o QNAME \o <<COLON, Registered, RBRACE>>)
EmptyNameTagged == EncTaggedInline(<<LBRACE>> \o QNAME \o <<COLON, DQ, DQ, RBRACE>>)
DictNameTagged ==
    EncTaggedInline(<<LBRACE>> \o QNAME \o <<COLON, LBRACE, RBRACE, RBRACE>>)
DeepTagged == EncTaggedInline(Nest(RecursionLimit + 1))

MalformedPieces ==
    { BadStandalone, BadBracket, BadTagged, EmptyNameTagged, DictNameTagged,
      DeepTagged }

Pieces ==
    FreePieces \cup StandalonePieces \cup NameOnlyPieces \cup ArrayPieces
    \cup BracketPieces \cup TaggedPieces \cup MalformedPieces

Replies ==
    UNION { { Concat(ps) : ps \in [1..n -> Pieces] } : n \in 1..MaxFrags }

\* what the backend answers to the follow-up prompt
SecondReplies ==
    { <<"txt">>, <<"txt", NL>>, EncTagged(EncStandalone(Registered, ArgsFlat)) }

(***************************************************************************)
(* State: one agent, BaseAgent(tools=[test_add]), and one call of          *)
(* completion on it (or one direct call of execute_tool_call).             *)
(***************************************************************************)
VARIABLES
    tool_mapping,         \* self.tool_mapping: the registered names
    pc,                   \* where the call stands
    history_arg,          \* the message_history the caller passed
    message_history,      \* the list completion appends to
    runs,                 \* the prompts given to self.agent.run, in order
    result,               \* what the first agent.run returned
    lastmsg,              \* the text of the first reply
    tool_calls,           \* extract_tool_calls(lastmsg)
    tool_calls_executed,  \* the {'call', 'result'} entries so far
    follow_up_message,    \* the prompt of the second generation
    response,             \* result['response'] once completion has returned
    error,                \* the text of the exception completion raised
    probe,                \* the outcome of a direct execute_tool_call
    final_result,         \* what the second agent.run returned
    entry,                \* the method the caller called: completion, run, chat
    turn,                 \* the number of calls made on the agent so far
    file,                 \* the backing file of a MemoryManager
    clock,                \* the number of timestamps taken so far
    outcome,              \* the last MemoryManager call and what it gave
    journal,              \* the mutator calls that have returned so far
    writers,              \* the calls of concurrent users of the file, step by step
    flights,              \* concurrent completions: the lists and each call's locals
    stream                \* the streaming consumer: chunks read, fragments yielded

\* the state of the memory store
memory_vars == <<file, clock, outcome, journal, writers, flights, stream>>

vars ==
    <<tool_mapping, pc, history_arg, message_history, runs, result, lastmsg,
      tool_calls, tool_calls_executed, follow_up_message, response, error, probe,
      final_result, entry, turn, memory_vars>>

\* an entry of the transcript; name is <<>> when the entry has no 'name' key
Message(role, name, content) == [role |-> role, name |-> name, content |-> content]

UserMessages == { <<"What time is it?">> }

\* transcripts a caller passes: none, or an earlier exchange
Histories ==
    { <<>>,
      << Message("user", <<>>, <<"Hello">>), Message("assistant", <<>>, <<"txt">>) >> }

\* the three ways completion reads the text off the result of agent.run:
\* str(result.data), str(result.output).strip(), str(result)
ResultShapes == { "data", "output", "neither" }

RunResult(shape, text) == [shape |-> shape, text |-> text]

\* the text read off the result without the strip
ResultTextVerbatim(r) ==
    CASE r.shape = "data" -> r.text
      [] r.shape = "output" -> r.text
      [] r.shape = "neither" -> <<"AgentRunResult">>

ResultText(r) ==
    CASE r.shape = "data" -> r.text
      [] r.shape = "output" -> strip(r.text)
      [] r.shape = "neither" -> <<"AgentRunResult">>

\* the texts a result of the shape can carry
TextsOf(shape, texts) == IF shape = "neither" THEN {<<>>} ELSE texts

\* the call dicts without the bookkeeping of where they were found
CallDict(c) == [name |-> c.name, arguments |-> c.arguments]

NoProbe ==
    [called |-> FALSE, raised |-> FALSE, value |-> <<>>,
     callinfo |-> [is_dict |-> FALSE, has_name |-> FALSE, has_arguments |-> FALSE,
                   name |-> <<>>, arguments |-> <<>>]]

\* the backing file: absent, or present with a text
NoFile == [exists |-> FALSE, text |-> <<>>]
FileWith(text) == [exists |-> TRUE, text |-> text]

\* no MemoryManager method has been called
NoOutcome == [op |-> "none", arg |-> <<>>, raised |-> FALSE, value |-> <<>>,
              before |-> NoFile]

\* nothing was called yet; facts: the facts added since the store was last
\* empty, prefs: what was last done to each key since then, empty: the store
\* was empty then
NoJournal == [facts |-> <<>>, prefs |-> <<>>, empty |-> TRUE]

\* the concurrent users of one backing file
Writers == {"a", "b"}

\* a user that has not called anything; loaded: load_memories has returned
\* memories to it, wrote: save_memories has written written for it
NoCall ==
    [pc |-> "idle", op |-> "none", arg |-> <<>>, loaded |-> FALSE,
     memories |-> [raised |-> FALSE, value |-> <<>>], wrote |-> FALSE,
     written |-> <<>>, raised |-> FALSE, value |-> <<>>]

\* the callers with a completion in flight
Callers == {"p", "q"}

\* the list objects: the one a caller passes, the one completion makes when
\* none is passed, and a list made once with the function
ListIds == {<<kind, c>> : kind \in {"own", "new"}, c \in Callers} \cup {<<"default", "">>}

\* the locals of a completion that was not called
NoFlight ==
    [pc |-> "idle", ref |-> <<"default", "">>, given |-> <<>>, message |-> <<>>,
     lastmsg |-> <<>>, tool_calls_executed |-> <<>>, follow_up_message |-> <<>>,
     response |-> <<>>, error |-> <<>>]

\* the generator of stream_response_buffer before the first chunk
NoStream ==
    [pc |-> "running", chunks |-> <<>>, yielded |-> <<>>, error |-> <<>>,
     done |-> FALSE]

NoFlights == [heap |-> [id \in ListIds |-> <<>>], calls |-> [c \in Callers |-> NoFlight]]

Init ==
    /\ tool_mapping = ToolNames
    /\ pc = "idle"
    /\ history_arg = <<>>
    /\ message_history = <<>>
    /\ runs = <<>>
    /\ result = RunResult("neither", <<>>)
    /\ lastmsg = <<>>
    /\ tool_calls = <<>>
    /\ tool_calls_executed = <<>>
    /\ follow_up_message = <<>>
    /\ response = <<>>
    /\ error = <<>>
    /\ probe = NoProbe
    /\ final_result = RunResult("neither", <<>>)
    /\ entry = "none"
    /\ turn = 0
    /\ file = NoFile
    /\ clock = 0
    /\ outcome = NoOutcome
    /\ journal = NoJournal
    /\ writers = [w \in Writers |-> NoCall]
    /\ flights = NoFlights
    /\ stream = NoStream

\* completion(message, message_history=h) up to the first await
CallCompletion(message, h) ==
    /\ pc = "idle"
    /\ history_arg' = h
    /\ message_history' = Append(h, Message("user", <<>>, message))
    /\ runs' = <<message>>
    /\ pc' = "await_first"
    /\ UNCHANGED <<tool_mapping, result, lastmsg, tool_calls, tool_calls_executed,
                   follow_up_message, response, error, probe>>
    /\ entry' = "completion"
    /\ turn' = turn + 1
    /\ UNCHANGED <<final_result, memory_vars>>

\* the first agent.run returns
FirstReply(shape, out) ==
    /\ pc = "await_first"
    /\ result' = RunResult(shape, out)
    /\ pc' = "first_read"
    /\ UNCHANGED <<tool_mapping, history_arg, message_history, runs, lastmsg,
                   tool_calls, tool_calls_executed, follow_up_message, response,
                   error, probe>>
    /\ UNCHANGED <<final_result, entry, turn, memory_vars>>

\* the text is read off the result, recorded and searched for calls;
\* without calls completion returns it
\* the branch on the extracted list: an exception of the extraction leaves
\* completion, an empty list returns the reply, calls start the tool loop
Branch(text, found) ==
    IF found.raised
    THEN /\ pc' = "raised"
         /\ error' = <<"RecursionError">>
         /\ UNCHANGED <<tool_calls, response>>
    ELSE /\ tool_calls' = found.calls
         /\ IF found.calls = <<>>
            THEN pc' = "returned" /\ response' = text
            ELSE pc' = "tools" /\ UNCHANGED response
         /\ UNCHANGED error

\* lastmsg is read off the result and appended as the assistant entry
ReadReply(text) ==
    /\ lastmsg' = text
    /\ message_history' = Append(message_history, Message("assistant", <<>>, text))
    /\ Branch(text, extract_tool_calls(text))

Extraction ==
    /\ pc = "first_read"
    /\ ReadReply(ResultText(result))
    /\ UNCHANGED <<tool_mapping, history_arg, runs, result, tool_calls_executed,
                   follow_up_message, probe>>
    /\ UNCHANGED <<final_result, entry, turn, memory_vars>>

\* one turn of the loop with the tool entry named 'unknown'
ExecuteNextUnnamed ==
    /\ pc = "tools"
    /\ Len(tool_calls_executed) < Len(tool_calls)
    /\ LET tool_call == tool_calls[Len(tool_calls_executed) + 1]
           tool_result == execute_tool_call(tool_mapping, Callinfo(tool_call))
       IN  IF tool_result.raised
           THEN /\ pc' = "raised"
                /\ error' = tool_result.value
                /\ UNCHANGED <<message_history, tool_calls_executed>>
           ELSE /\ message_history' =
                       Append(message_history,
                              Message("tool", PyStr(<<"unknown">>), tool_result.value))
                /\ tool_calls_executed' =
                       Append(tool_calls_executed,
                              [call |-> CallDict(tool_call), result |-> tool_result.value])
                /\ UNCHANGED <<pc, error>>
    /\ UNCHANGED <<tool_mapping, history_arg, runs, result, lastmsg, tool_calls,
                   follow_up_message, response, probe>>
    /\ UNCHANGED <<final_result, entry, turn, memory_vars>>

\* one turn of the loop over tool_calls
ExecuteNext ==
    /\ pc = "tools"
    /\ Len(tool_calls_executed) < Len(tool_calls)
    /\ LET tool_call == tool_calls[Len(tool_calls_executed) + 1]
           tool_result == execute_tool_call(tool_mapping, Callinfo(tool_call))
       IN  IF tool_result.raised
           THEN /\ pc' = "raised"
                /\ error' = tool_result.value
                /\ UNCHANGED <<message_history, tool_calls_executed>>
           ELSE /\ message_history' =
                       Append(message_history,
                              Message("tool", tool_call.name, tool_result.value))
                /\ tool_calls_executed' =
                       Append(tool_calls_executed,
                              [call |-> CallDict(tool_call), result |-> tool_result.value])
                /\ UNCHANGED <<pc, error>>
    /\ UNCHANGED <<tool_mapping, history_arg, runs, result, lastmsg, tool_calls,
                   follow_up_message, response, probe>>
    /\ UNCHANGED <<final_result, entry, turn, memory_vars>>

\* "\n".join(lines)
RECURSIVE JoinLines(_)
JoinLines(lines) ==
    IF lines = <<>> THEN <<>>
    ELSE IF Len(lines) = 1 THEN lines[1]
    ELSE lines[1] \o <<NL>> \o JoinLines(Tail(lines))

\* the follow-up prompt with every line carrying the result of the last call
FollowUpLastResult(executed) ==
    JoinLines([i \in 1..Len(executed) |->
                  <<"Tool '">> \o PyToStr(executed[i].call.name)
                  \o <<"' returned: ">> \o executed[Len(executed)].result])
    \o <<NL, NL, "Now provide your response to the user based on these tool results.">>

FollowUp(executed) ==
    JoinLines([i \in 1..Len(executed) |->
                  <<"Tool '">> \o PyToStr(executed[i].call.name)
                  \o <<"' returned: ">> \o executed[i].result])
    \o <<NL, NL, "Now provide your response to the user based on these tool results.">>

\* after the loop: the follow-up prompt is built and given to agent.run
SendFollowUp ==
    /\ pc = "tools"
    /\ Len(tool_calls_executed) = Len(tool_calls)
    /\ follow_up_message' = FollowUp(tool_calls_executed)
    /\ runs' = Append(runs, FollowUp(tool_calls_executed))
    /\ pc' = "await_second"
    /\ UNCHANGED <<tool_mapping, history_arg, message_history, result, lastmsg,
                   tool_calls, tool_calls_executed, response, error, probe>>
    /\ UNCHANGED <<final_result, entry, turn, memory_vars>>

\* the second agent.run returns and its text is searched for calls again:
\* calls found there are put on the list and the loop resumes
SecondReplyResolves(shape, out) ==
    /\ pc = "await_second"
    /\ LET final_response == ResultText(RunResult(shape, out))
       IN  /\ message_history' =
                  Append(message_history, Message("assistant", <<>>, final_response))
           /\ response' = final_response
           /\ tool_calls' = tool_calls \o extract_tool_calls(final_response).calls
           /\ pc' = IF extract_tool_calls(final_response).calls = <<>>
                    THEN "returned" ELSE "tools"
    /\ UNCHANGED <<tool_mapping, history_arg, runs, result, lastmsg,
                   tool_calls_executed, follow_up_message, error, probe>>
    /\ final_result' = RunResult(shape, out)
    /\ UNCHANGED <<entry, turn, memory_vars>>

\* the second agent.run returns: its text is the response
SecondReply(shape, out) ==
    /\ pc = "await_second"
    /\ LET final_response == ResultText(RunResult(shape, out))
       IN  /\ message_history' =
                  Append(message_history, Message("assistant", <<>>, final_response))
           /\ response' = final_response
    /\ pc' = "returned"
    /\ UNCHANGED <<tool_mapping, history_arg, runs, result, lastmsg, tool_calls,
                   tool_calls_executed, follow_up_message, error, probe>>
    /\ final_result' = RunResult(shape, out)
    /\ UNCHANGED <<entry, turn, memory_vars>>

\* agent.run raises and the list is put back to what the caller passed
BackendFailureRollsBack ==
    /\ pc \in {"await_first", "await_second"}
    /\ pc' = "raised"
    /\ error' = <<"backend unavailable">>
    /\ message_history' = history_arg
    /\ UNCHANGED <<tool_mapping, history_arg, runs, result, lastmsg,
                   tool_calls, tool_calls_executed, follow_up_message, response, probe>>
    /\ UNCHANGED <<final_result, entry, turn, memory_vars>>

\* agent.run raises: the exception leaves completion
BackendFailure ==
    /\ pc \in {"await_first", "await_second"}
    /\ pc' = "raised"
    /\ error' = <<"backend unavailable">>
    /\ UNCHANGED <<tool_mapping, history_arg, message_history, runs, result, lastmsg,
                   tool_calls, tool_calls_executed, follow_up_message, response, probe>>
    /\ UNCHANGED <<final_result, entry, turn, memory_vars>>

\* the values the name and the arguments of a descriptor are drawn from
ProbeValues ==
    { EmptyDict, Denotes(ArgsFlat), <<"null">>, <<"1">>,
      PyStr(<<Registered>>), PyStr(<<Unregistered>>),
      <<LBRACE>> \o Q("a") \o <<COLON>> \o Q("x") \o <<COMMA>> \o Q("b")
      \o <<COLON>> \o Q("y") \o <<RBRACE>>,
      <<LBRACE>> \o Q("a") \o <<COLON, "1", COMMA>> \o Q("b")
      \o <<COLON>> \o Q("y") \o <<RBRACE>>,
      <<LBRACK, "1", RBRACK>> }

\* descriptors a caller hands to execute_tool_call directly
Descriptors ==
    [is_dict : BOOLEAN, has_name : BOOLEAN, has_arguments : BOOLEAN,
     name : ProbeValues, arguments : ProbeValues]

\* execute_tool_call(callinfo) called on its own
ExecuteDirect(callinfo) ==
    /\ pc = "idle"
    /\ LET r == execute_tool_call(tool_mapping, callinfo)
       IN  probe' = [called |-> TRUE, raised |-> r.raised, value |-> r.value,
                     callinfo |-> callinfo]
    /\ pc' = "probed"
    /\ UNCHANGED <<tool_mapping, history_arg, message_history, runs, result, lastmsg,
                   tool_calls, tool_calls_executed, follow_up_message, response, error>>
    /\ UNCHANGED <<final_result, entry, turn, memory_vars>>

Next ==
    \/ \E m \in UserMessages, h \in Histories : CallCompletion(m, h)
    \/ /\ pc = "await_first"
       /\ \E shape \in ResultShapes :
              \E out \in TextsOf(shape, Replies) : FirstReply(shape, out)
    \/ Extraction
    \/ ExecuteNext
    \/ SendFollowUp
    \/ /\ pc = "await_second"
       /\ \E shape \in ResultShapes :
              \E out \in TextsOf(shape, SecondReplies) : SecondReply(shape, out)
    \/ BackendFailure
    \/ /\ pc = "idle"
       /\ \E c \in Descriptors : ExecuteDirect(c)

Spec == Init /\ [][Next]_vars

(***************************************************************************)
(* Conversations: the entry points run and chat, and a caller that goes on *)
(* with the transcript of the turn before.                                 *)
(***************************************************************************)
MaxTurns == 2

\* the queries of the turns
Query(n) ==
    IF n = 1 THEN <<"What time is it?">> ELSE <<"Thanks! Can you tell me again?">>

\* what the backend answers in a conversation: text, a call of a registered
\* tool, a call whose name is a dict
TurnReplies ==
    { <<"txt">>, EncTagged(EncStandalone(Registered, ArgsFlat)), DictNameTagged }

\* the user entry comes first and the transcript handed in follows it
StartNewestFirst(e, message, h) ==
    /\ entry' = e
    /\ turn' = turn + 1
    /\ history_arg' = h
    /\ message_history' = <<Message("user", <<>>, message)>> \o h
    /\ runs' = <<message>>
    /\ pc' = "await_first"
    /\ result' = RunResult("neither", <<>>)
    /\ final_result' = RunResult("neither", <<>>)
    /\ lastmsg' = <<>>
    /\ tool_calls' = <<>>
    /\ tool_calls_executed' = <<>>
    /\ follow_up_message' = <<>>
    /\ response' = <<>>
    /\ error' = <<>>
    /\ UNCHANGED <<tool_mapping, probe, memory_vars>>

\* completion(message, message_history=h) entered from e, up to the first
\* await: its locals are fresh
Start(e, message, h) ==
    /\ entry' = e
    /\ turn' = turn + 1
    /\ history_arg' = h
    /\ message_history' = Append(h, Message("user", <<>>, message))
    /\ runs' = <<message>>
    /\ pc' = "await_first"
    /\ result' = RunResult("neither", <<>>)
    /\ final_result' = RunResult("neither", <<>>)
    /\ lastmsg' = <<>>
    /\ tool_calls' = <<>>
    /\ tool_calls_executed' = <<>>
    /\ follow_up_message' = <<>>
    /\ response' = <<>>
    /\ error' = <<>>
    /\ UNCHANGED <<tool_mapping, probe, memory_vars>>

\* run(message, message_history=h): completion, awaited without a handler
run(message, h) ==
    /\ pc = "idle"
    /\ Start("run", message, h)

\* chat(message, message_history=h): completion, awaited inside try
chat(message, h) ==
    /\ pc = "idle"
    /\ Start("chat", message, h)

\* the next turn: the caller passes the list the turn before appended to
NextTurn(e) ==
    /\ pc \in {"returned", "caught"}
    /\ turn < MaxTurns
    /\ Start(e, Query(turn + 1), message_history)

\* chat returns the exception text and nothing is run again
ChatRetries ==
    /\ pc = "raised"
    /\ entry = "chat"
    /\ pc' = "caught"
    /\ response' = <<"Error: ">> \o error
    /\ runs' = Append(runs, runs[Len(runs)])
    /\ UNCHANGED <<tool_mapping, history_arg, message_history, result, lastmsg,
                   tool_calls, tool_calls_executed, follow_up_message, error, probe,
                   final_result, entry, turn, memory_vars>>

\* except Exception as e: return f"Error: {str(e)}"
ChatCatches ==
    /\ pc = "raised"
    /\ entry = "chat"
    /\ pc' = "caught"
    /\ response' = <<"Error: ">> \o error
    /\ UNCHANGED <<tool_mapping, history_arg, message_history, runs, result, lastmsg,
                   tool_calls, tool_calls_executed, follow_up_message, error, probe,
                   final_result, entry, turn, memory_vars>>

NextTurns ==
    \/ \E h \in Histories : run(Query(1), h)
    \/ \E h \in Histories : chat(Query(1), h)
    \/ \E e \in {"run", "chat"} : NextTurn(e)
    \/ /\ pc = "await_first"
       /\ \E shape \in ResultShapes :
              \E out \in TextsOf(shape, TurnReplies) : FirstReply(shape, out)
    \/ Extraction
    \/ ExecuteNext
    \/ SendFollowUp
    \/ /\ pc = "await_second"
       /\ \E shape \in ResultShapes :
              \E out \in TextsOf(shape, SecondReplies) : SecondReply(shape, out)
    \/ BackendFailure
    \/ ChatCatches

SpecTurns == Init /\ [][NextTurns]_vars

(***************************************************************************)
(* The memory store: MemoryManager on one backing file.  A document is a   *)
(* Python value (canonical text); the file holds what json.dumps wrote, or *)
(* whatever was there before the manager was constructed.                  *)
(***************************************************************************)
MaxFacts == 2

\* dicts and lists from their items
RECURSIVE JoinPairs(_)
JoinPairs(its) ==
    IF its = <<>> THEN <<>>
    ELSE its[1][1] \o <<COLON>> \o its[1][2]
         \o (IF Len(its) = 1 THEN <<>> ELSE <<COMMA>> \o JoinPairs(Tail(its)))

RECURSIVE JoinValues(_)
JoinValues(its) ==
    IF its = <<>> THEN <<>>
    ELSE its[1] \o (IF Len(its) = 1 THEN <<>> ELSE <<COMMA>> \o JoinValues(Tail(its)))

MkDict(its) == <<LBRACE>> \o JoinPairs(its) \o <<RBRACE>>
MkList(its) == <<LBRACK>> \o JoinValues(its) \o <<RBRACK>>

\* {"facts": [], "preferences": {}, "conversations": []}
EmptyMemory ==
    MkDict(<< <<Q("facts"), MkList(<<>>)>>, <<Q("preferences"), EmptyDict>>,
              <<Q("conversations"), MkList(<<>>)>> >>)

\* the newline and indentation json.dumps(indent=2) puts before an item
RECURSIVE Spaces(_)
Spaces(n) == IF n = 0 THEN <<>> ELSE <<SP>> \o Spaces(n - 1)

Indent(level) == <<NL>> \o Spaces(2 * level)

\* json.dumps(v, indent=2, ensure_ascii=False), v nested at level
RECURSIVE Dumps(_, _), DumpPairs(_, _), DumpValues(_, _)
Dumps(v, level) ==
    IF IsDict(v) /\ v # EmptyDict
    THEN <<LBRACE>> \o DumpPairs(DictItems(v, 2), level + 1)
         \o Indent(level) \o <<RBRACE>>
    ELSE IF IsList(v) /\ v # MkList(<<>>)
    THEN <<LBRACK>> \o DumpValues(ListItems(v, 2), level + 1)
         \o Indent(level) \o <<RBRACK>>
    ELSE v

DumpPairs(its, level) ==
    Indent(level) \o its[1][1] \o <<COLON, SP>> \o Dumps(its[1][2], level)
    \o (IF Len(its) = 1 THEN <<>> ELSE <<COMMA>> \o DumpPairs(Tail(its), level))

DumpValues(its, level) ==
    Indent(level) \o Dumps(its[1], level)
    \o (IF Len(its) = 1 THEN <<>> ELSE <<COMMA>> \o DumpValues(Tail(its), level))

json_dumps(v) == Dumps(v, 0)

\* the pair replaces every pair of the dict
SetItemAlone(its, k, v) == <<<<k, v>>>>

\* d[key] = value: the pair keeps its place when the key is there
RECURSIVE SetItem(_, _, _)
SetItem(its, k, v) ==
    IF its = <<>> THEN <<<<k, v>>>>
    ELSE IF its[1][1] = k THEN <<<<k, v>>>> \o Tail(its)
    ELSE <<its[1]>> \o SetItem(Tail(its), k, v)

SetKey(d, key, v) == MkDict(SetItem(DictItems(d, 2), PyStr(<<key>>), v))

\* del d[key]
RECURSIVE DelItem(_, _)
DelItem(its, k) ==
    IF its = <<>> THEN <<>>
    ELSE IF its[1][1] = k THEN Tail(its)
    ELSE <<its[1]>> \o DelItem(Tail(its), k)

DelKey(d, key) == MkDict(DelItem(DictItems(d, 2), PyStr(<<key>>)))

\* l.append(v)
ListAppend(l, v) == MkList(Append(ListItems(l, 2), v))

\* v[key] for a str key
Subscript(v, key) ==
    IF ~IsDict(v) THEN Raises(TypeErrorText)
    ELSE IF HasKey(v, key) THEN Returns(GetKey(v, key))
    ELSE Raises(<<"KeyError">>)

\* key in v for a str key
Contains(v, key) ==
    IF IsDict(v) THEN Returns(HasKey(v, key))
    ELSE IF IsList(v)
    THEN Returns(\E i \in 1..Len(ListItems(v, 2)) : ListItems(v, 2)[i] = PyStr(<<key>>))
    ELSE IF IsStr(v) THEN Returns(\E i \in 2..(Len(v) - 1) : v[i] = key)
    ELSE Raises(TypeErrorText)

\* datetime.now().isoformat() at the tick now
Timestamp(now) == PyStr(<<"2024-01-01T">> \o IntStr(now))

\* {"content": fact, "timestamp": ...}
Fact(fact, now) ==
    MkDict(<< <<Q("content"), PyStr(<<fact>>)>>, <<Q("timestamp"), Timestamp(now)>> >>)

\* what a call of the manager leaves: the file, and its value or exception
Done(f, v) == [raised |-> FALSE, value |-> v, file |-> f]
Failed(f, e) == [raised |-> TRUE, value |-> e, file |-> f]

\* load_memories(): FileNotFoundError and JSONDecodeError give the empty
\* document, what json.loads returns is returned as it is
Loaded(data) ==
    IF data.ok THEN Returns(data.val)
    ELSE IF data.deep THEN Raises(<<"RecursionError">>)
    ELSE Returns(EmptyMemory)

load_memories(f) ==
    IF ~f.exists THEN Returns(EmptyMemory) ELSE Loaded(json_loads(f.text))

\* save_memories(memories): the file after write_text
save_memories(memories) == FileWith(json_dumps(memories))

\* the accessor writes what it loaded back to the file
FieldSaving(f, loaded, field) ==
    IF loaded.raised THEN Failed(f, loaded.value)
    ELSE IF Subscript(loaded.value, field).raised
    THEN Failed(f, Subscript(loaded.value, field).value)
    ELSE Done(save_memories(loaded.value), Subscript(loaded.value, field).value)

\* an accessor: memories[field] of what was loaded
Field(f, loaded, field) ==
    IF loaded.raised THEN Failed(f, loaded.value)
    ELSE IF Subscript(loaded.value, field).raised
    THEN Failed(f, Subscript(loaded.value, field).value)
    ELSE Done(f, Subscript(loaded.value, field).value)

get_facts(f) == Field(f, load_memories(f), "facts")

get_preferences(f) == Field(f, load_memories(f), "preferences")

\* the fact is put first in the list
AppendFactFirst(f, memories, facts, fact, now) ==
    IF facts.raised THEN Failed(f, facts.value)
    ELSE IF ~IsList(facts.value) THEN Failed(f, <<"AttributeError">>)
    ELSE Done(save_memories(SetKey(memories, "facts",
                  MkList(<<Fact(fact, now)>> \o ListItems(facts.value, 2)))),
              <<"None">>)

\* memories["facts"].append({...}); self.save_memories(memories)
AppendFact(f, memories, facts, fact, now) ==
    IF facts.raised THEN Failed(f, facts.value)
    ELSE IF ~IsList(facts.value) THEN Failed(f, <<"AttributeError">>)
    ELSE Done(save_memories(SetKey(memories, "facts",
                  ListAppend(facts.value, Fact(fact, now)))),
              <<"None">>)

AddFactTo(f, loaded, fact, now) ==
    IF loaded.raised THEN Failed(f, loaded.value)
    ELSE AppendFact(f, loaded.value, Subscript(loaded.value, "facts"), fact, now)

add_fact(f, fact, now) == AddFactTo(f, load_memories(f), fact, now)

\* the pair is put at the end, whether or not the key is there
SetPreferenceAppending(f, memories, prefs, key, value) ==
    IF prefs.raised THEN Failed(f, prefs.value)
    ELSE IF ~IsDict(prefs.value) THEN Failed(f, TypeErrorText)
    ELSE Done(save_memories(SetKey(memories, "preferences",
                  MkDict(Append(DictItems(prefs.value, 2),
                                <<PyStr(<<key>>), value>>)))),
              <<"None">>)

\* memories["preferences"][key] = value; self.save_memories(memories)
SetPreference(f, memories, prefs, key, value) ==
    IF prefs.raised THEN Failed(f, prefs.value)
    ELSE IF ~IsDict(prefs.value) THEN Failed(f, TypeErrorText)
    ELSE Done(save_memories(SetKey(memories, "preferences",
                  SetKey(prefs.value, key, value))),
              <<"None">>)

AddPreferenceTo(f, loaded, key, value) ==
    IF loaded.raised THEN Failed(f, loaded.value)
    ELSE SetPreference(f, loaded.value, Subscript(loaded.value, "preferences"),
                       key, value)

add_preference(f, key, value) == AddPreferenceTo(f, load_memories(f), key, value)

\* the document is saved whether or not the key was there
DeletePreferenceSaving(f, memories, prefs, found, key) ==
    IF found.raised THEN Failed(f, found.value)
    ELSE IF ~found.value THEN Done(save_memories(memories), <<"False">>)
    ELSE IF ~IsDict(prefs) THEN Failed(f, TypeErrorText)
    ELSE Done(save_memories(SetKey(memories, "preferences", DelKey(prefs, key))),
              <<"True">>)

\* if key in memories["preferences"]: del ...; save; return True
\* return False
DeletePreference(f, memories, prefs, found, key) ==
    IF found.raised THEN Failed(f, found.value)
    ELSE IF ~found.value THEN Done(f, <<"False">>)
    ELSE IF ~IsDict(prefs) THEN Failed(f, TypeErrorText)
    ELSE Done(save_memories(SetKey(memories, "preferences", DelKey(prefs, key))),
              <<"True">>)

LookUpPreference(f, memories, prefs, key) ==
    IF prefs.raised THEN Failed(f, prefs.value)
    ELSE DeletePreference(f, memories, prefs.value, Contains(prefs.value, key), key)

RemovePreferenceFrom(f, loaded, key) ==
    IF loaded.raised THEN Failed(f, loaded.value)
    ELSE LookUpPreference(f, loaded.value,
                          Subscript(loaded.value, "preferences"), key)

remove_preference(f, key) == RemovePreferenceFrom(f, load_memories(f), key)

\* only the preferences are reset, the facts stay
clear_preferences(f) ==
    IF load_memories(f).raised \/ ~IsDict(load_memories(f).value)
    THEN Done(save_memories(EmptyMemory), <<"None">>)
    ELSE Done(save_memories(SetKey(load_memories(f).value, "preferences", EmptyDict)),
              <<"None">>)

\* clear_memories(): the empty document is saved, nothing is loaded
clear_memories(f) == Done(save_memories(EmptyMemory), <<"None">>)

\* "\n=== LONG-TERM MEMORY ===\n"
SummaryHeader == <<NL, "===", SP, "LONG-TERM", SP, "MEMORY", SP, "===", NL>>

\* bool(v) of a loaded value
Truthy(v) == v \notin {<<"null">>, <<"0">>, <<DQ, DQ>>, EmptyDict, MkList(<<>>)}

\* f"- {fact['content']}\n" for each fact
RECURSIVE FactBullets(_)
FactBullets(facts) ==
    IF facts = <<>> THEN <<>>
    ELSE <<"-", SP>> \o PyToStr(GetKey(facts[1], "content")) \o <<NL>>
         \o FactBullets(Tail(facts))

\* f"- {key}: {value}\n" for each item
RECURSIVE PreferenceBullets(_)
PreferenceBullets(its) ==
    IF its = <<>> THEN <<>>
    ELSE <<"-", SP>> \o StrBody(its[1][1]) \o <<COLON, SP>> \o PyToStr(its[1][2])
         \o <<NL>> \o PreferenceBullets(Tail(its))

\* every fact can be subscripted with 'content'
HaveContent(facts) ==
    \A i \in 1..Len(facts) : IsDict(facts[i]) /\ HasKey(facts[i], "content")

\* the section is there whether or not there are preferences
PreferencesSectionAlways(prefs) ==
    <<NL, "User Preferences:", NL>> \o PreferenceBullets(DictItems(prefs, 2))

\* if memories["preferences"]: the title and a bullet for each item
PreferencesSection(prefs) ==
    IF ~Truthy(prefs) THEN <<>>
    ELSE <<NL, "User Preferences:", NL>> \o PreferenceBullets(DictItems(prefs, 2))

\* if memories["facts"]: the title and a bullet for each fact
FactsSection(facts) ==
    IF ~Truthy(facts) THEN <<>>
    ELSE <<NL, "Known Facts:", NL>> \o FactBullets(ListItems(facts, 2))

Summarise(f, facts, prefs) ==
    IF facts.raised THEN Failed(f, facts.value)
    ELSE IF Truthy(facts.value) /\ ~IsList(facts.value) THEN Failed(f, TypeErrorText)
    ELSE IF Truthy(facts.value) /\ ~HaveContent(ListItems(facts.value, 2))
    THEN Failed(f, TypeErrorText)
    ELSE IF prefs.raised THEN Failed(f, prefs.value)
    ELSE IF Truthy(prefs.value) /\ ~IsDict(prefs.value)
    THEN Failed(f, <<"AttributeError">>)
    ELSE Done(f, SummaryHeader \o FactsSection(facts.value)
                 \o PreferencesSection(prefs.value))

SummaryOf(f, loaded) ==
    IF loaded.raised THEN Failed(f, loaded.value)
    ELSE Summarise(f, Subscript(loaded.value, "facts"),
                   Subscript(loaded.value, "preferences"))

get_memory_summary(f) == SummaryOf(f, load_memories(f))

\* the facts, keys and values the callers use
FactTexts == { "likes tea", "lives in Oslo" }
PreferenceKeys == { "theme", "lang" }
PreferenceValues == { Q("dark"), <<"1">> }

\* json.dumps(test_data): the document on one line
StoredCompact ==
    <<LBRACE>> \o Q("facts") \o <<COLON, SP, LBRACK, LBRACE>> \o Q("content")
    \o <<COLON, SP>> \o Q("Test fact") \o <<COMMA, SP>> \o Q("timestamp")
    \o <<COLON, SP>> \o Q("2024-01-01T00:00:00") \o <<RBRACE, RBRACK, COMMA, SP>>
    \o Q("preferences") \o <<COLON, SP, LBRACE>> \o Q("theme") \o <<COLON, SP>>
    \o Q("dark") \o <<RBRACE, COMMA, SP>> \o Q("conversations")
    \o <<COLON, SP, LBRACK, RBRACK, RBRACE>>

\* the states the backing file can be in when the manager is constructed:
\* absent, empty, not JSON, JSON that is not a document, a document
NotDocuments ==
    { EmptyDict, MkList(<<>>), <<"null">>,
      <<LBRACE>> \o Q("facts") \o <<COLON, SP, LBRACK, RBRACK, RBRACE>> }

Files ==
    { NoFile, FileWith(<<>>), FileWith(<<"invalid json content">>),
      FileWith(StoredCompact) }
    \cup { FileWith(t) : t \in NotDocuments }

\* the state of the agent does not matter to the store
InitMemory ==
    /\ tool_mapping = ToolNames
    /\ pc = "idle"
    /\ history_arg = <<>>
    /\ message_history = <<>>
    /\ runs = <<>>
    /\ result = RunResult("neither", <<>>)
    /\ lastmsg = <<>>
    /\ tool_calls = <<>>
    /\ tool_calls_executed = <<>>
    /\ follow_up_message = <<>>
    /\ response = <<>>
    /\ error = <<>>
    /\ probe = NoProbe
    /\ final_result = RunResult("neither", <<>>)
    /\ entry = "none"
    /\ turn = 0
    /\ file \in Files
    /\ clock = 0
    /\ outcome = NoOutcome
    /\ journal = [NoJournal EXCEPT !.empty = (load_memories(file) = Returns(EmptyMemory))]
    /\ writers = [w \in Writers |-> NoCall]
    /\ flights = NoFlights
    /\ stream = NoStream

agent_vars ==
    <<tool_mapping, pc, history_arg, message_history, runs, result, lastmsg,
      tool_calls, tool_calls_executed, follow_up_message, response, error, probe,
      final_result, entry, turn>>

\* a call of the manager has ended with res
Ends(op, arg, res, j) ==
    /\ file' = res.file
    /\ journal' = (IF res.raised THEN journal ELSE j)
    /\ UNCHANGED <<writers, flights, stream>>
    /\ outcome' = [op |-> op, arg |-> arg, raised |-> res.raised,
                   value |-> res.value, before |-> file]
    /\ UNCHANGED agent_vars

LoadMemories ==
    /\ Ends("load_memories", <<>>,
            [raised |-> load_memories(file).raised,
             value |-> load_memories(file).value, file |-> file],
            journal)
    /\ UNCHANGED clock

GetFacts ==
    /\ Ends("get_facts", <<>>, get_facts(file), journal)
    /\ UNCHANGED clock

GetPreferences ==
    /\ Ends("get_preferences", <<>>, get_preferences(file), journal)
    /\ UNCHANGED clock

GetMemorySummary ==
    /\ Ends("get_memory_summary", <<>>, get_memory_summary(file), journal)
    /\ UNCHANGED clock

AddFact(fact) ==
    /\ clock < MaxFacts
    /\ clock' = clock + 1
    /\ Ends("add_fact", <<fact>>, add_fact(file, fact, clock),
            [journal EXCEPT !.facts = Append(@, fact)])

AddPreference(key, value) ==
    /\ Ends("add_preference", <<key, value>>, add_preference(file, key, value),
            [journal EXCEPT !.prefs = (key :> value) @@ @])
    /\ UNCHANGED clock

RemovePreference(key) ==
    /\ Ends("remove_preference", <<key>>, remove_preference(file, key),
            [journal EXCEPT !.prefs = (key :> <<"removed">>) @@ @])
    /\ UNCHANGED clock

ClearMemories ==
    /\ Ends("clear_memories", <<>>, clear_memories(file), NoJournal)
    /\ UNCHANGED clock

NextMemory ==
    \/ LoadMemories
    \/ GetFacts
    \/ GetPreferences
    \/ GetMemorySummary
    \/ \E fact \in FactTexts : AddFact(fact)
    \/ \E key \in PreferenceKeys, value \in PreferenceValues : AddPreference(key, value)
    \/ \E key \in PreferenceKeys : RemovePreference(key)
    \/ ClearMemories

SpecMemory == InitMemory /\ [][NextMemory]_vars

(***************************************************************************)
(* AgentWithMemory: the tools of _register_tools called through            *)
(* execute_tool_call, on the store of the agent's MemoryManager.           *)
(***************************************************************************)
\* the keys of self.tool_mapping after _register_tools
MemoryToolNames == {"get_current_time", "saveMemory"}

\* the names of the calls that are not saveMemory calls
OtherToolNames == {"get_current_time", "test_add"}

\* the arguments objects of the saveMemory calls: with or without the key
\* "ctx", a fact without "key" (the default None), a preference with one
SaveMemoryArguments ==
    [has_ctx : BOOLEAN, memory_type : {"fact"}, content : FactTexts, key : {"None"}]
    \cup [has_ctx : BOOLEAN, memory_type : {"preference", "setting"},
          content : FactTexts, key : PreferenceKeys]

\* the manager's exception leaves saveMemory, its None becomes ret
SavedAs(res, ret) == IF res.raised THEN res ELSE Done(res.file, ret)

\* saveMemory(ctx, memory_type, content, key)
saveMemory(f, a, now) ==
    IF a.memory_type = "fact"
    THEN SavedAs(add_fact(f, a.content, now), <<"Fact saved to memory">>)
    ELSE SavedAs(add_preference(f, a.key, PyStr(<<a.content>>)),
                 <<"Preference saved to memory">>)

\* tool_function(**arguments) for saveMemory: ctx is a parameter without a
\* default
CallSaveMemory(f, a, now) ==
    IF ~a.has_ctx
    THEN Failed(f, <<"saveMemory() missing 1 required positional argument: 'ctx'">>)
    ELSE saveMemory(f, a, now)

\* get_current_time(): memory_agent.py does not import datetime
get_current_time(f) == Failed(f, <<"name 'datetime' is not defined">>)

\* the try of execute_tool_call: str(result), or the text of the exception
Executed(tool_name, r) ==
    IF r.raised THEN Done(r.file, <<"Error executing ", tool_name, ": ">> \o r.value)
    ELSE Done(r.file, r.value)

\* execute_tool_call({'name': tool_name, 'arguments': a}) of AgentWithMemory
execute_memory_tool_call(f, tool_name, a, now) ==
    IF tool_name \notin MemoryToolNames
    THEN Done(f, <<"Error: Unknown tool '", tool_name, "'">>)
    ELSE IF tool_name = "saveMemory"
         THEN Executed(tool_name, CallSaveMemory(f, a, now))
         ELSE Executed(tool_name, get_current_time(f))

ExecuteSaveMemory(a) ==
    /\ a.memory_type = "fact" => clock < MaxFacts
    /\ clock' = (IF a.memory_type = "fact" THEN clock + 1 ELSE clock)
    /\ Ends("saveMemory", a, execute_memory_tool_call(file, "saveMemory", a, clock),
            journal)

ExecuteOther(tool_name) ==
    /\ Ends(tool_name, <<>>, execute_memory_tool_call(file, tool_name, <<>>, clock),
            journal)
    /\ UNCHANGED clock

NextMemoryAgent ==
    \/ \E a \in SaveMemoryArguments : ExecuteSaveMemory(a)
    \/ \E tool_name \in OtherToolNames : ExecuteOther(tool_name)

SpecMemoryAgent == InitMemory /\ [][NextMemoryAgent]_vars

(***************************************************************************)
(* A turn of AgentWithMemory: chat, with the tool loop of completion       *)
(* executing the memory tools on the store.                                *)
(***************************************************************************)
\* {"memory_type": "fact", "content": "likes tea"}, with "ctx": null in front
\* when ctx is set
FactArguments(ctx) ==
    <<LBRACE>> \o (IF ctx THEN Q("ctx") \o <<COLON, SP, "null", COMMA, SP>> ELSE <<>>)
    \o Q("memory_type") \o <<COLON, SP>> \o Q("fact") \o <<COMMA, SP>>
    \o Q("content") \o <<COLON, SP>> \o Q("likes tea") \o <<RBRACE>>

\* {"ctx": null, "memory_type": "preference", "content": "dark", "key": "theme"}
PreferenceArguments ==
    <<LBRACE>> \o Q("ctx") \o <<COLON, SP, "null", COMMA, SP>>
    \o Q("memory_type") \o <<COLON, SP>> \o Q("preference") \o <<COMMA, SP>>
    \o Q("content") \o <<COLON, SP>> \o Q("dark") \o <<COMMA, SP>>
    \o Q("key") \o <<COLON, SP>> \o Q("theme") \o <<RBRACE>>

\* the first replies of the backend: no call, a saveMemory call with and
\* without ctx, two calls
MemoryReplies ==
    { <<"txt">>,
      EncStandalone("saveMemory", FactArguments(TRUE)),
      EncStandalone("saveMemory", FactArguments(FALSE)),
      EncStandalone("saveMemory", FactArguments(TRUE))
          \o <<SP>> \o EncStandalone("saveMemory", PreferenceArguments) }

\* the keyword arguments of an extracted saveMemory call
ArgumentsOf(d) ==
    [has_ctx |-> HasKey(d, "ctx"),
     memory_type |-> StrBody(GetKey(d, "memory_type"))[1],
     content |-> StrBody(GetKey(d, "content"))[1],
     key |-> IF HasKey(d, "key") THEN StrBody(GetKey(d, "key"))[1] ELSE "None"]

InitMemoryTurn ==
    /\ tool_mapping = { PyStr(<<n>>) : n \in MemoryToolNames }
    /\ pc = "idle"
    /\ history_arg = <<>>
    /\ message_history = <<>>
    /\ runs = <<>>
    /\ result = RunResult("neither", <<>>)
    /\ lastmsg = <<>>
    /\ tool_calls = <<>>
    /\ tool_calls_executed = <<>>
    /\ follow_up_message = <<>>
    /\ response = <<>>
    /\ error = <<>>
    /\ probe = NoProbe
    /\ final_result = RunResult("neither", <<>>)
    /\ entry = "none"
    /\ turn = 0
    /\ file \in {NoFile, FileWith(StoredCompact)}
    /\ clock = 0
    /\ outcome = NoOutcome
    /\ journal = NoJournal
    /\ writers = [w \in Writers |-> NoCall]
    /\ flights = NoFlights
    /\ stream = NoStream

\* f"[MEMORY CONTEXT]\n{memory_summary}\n\n[USER MESSAGE]\n{message}"
Contextualized(memory_summary, message) ==
    <<"[MEMORY CONTEXT]", NL>> \o memory_summary
    \o <<NL, NL, "[USER MESSAGE]", NL>> \o message

\* AgentWithMemory.chat(message, message_history=h): the summary is read
\* before BaseAgent.chat and its try are entered
MemoryChat(message, h, memory_summary) ==
    /\ pc = "idle"
    /\ IF memory_summary.raised
       THEN /\ pc' = "raised"
            /\ error' = memory_summary.value
            /\ entry' = "memory_chat"
            /\ turn' = turn + 1
            /\ UNCHANGED <<tool_mapping, history_arg, message_history, runs, result,
                           lastmsg, tool_calls, tool_calls_executed,
                           follow_up_message, response, probe, final_result,
                           memory_vars>>
       ELSE chat(Contextualized(memory_summary.value, message), h)

\* the entry of the transcript and of tool_calls_executed for the call, and
\* what the tool left in the store
ToolDone(tool_call, r) ==
    /\ file' = r.file
    /\ message_history' =
           Append(message_history, Message("tool", tool_call.name, r.value))
    /\ tool_calls_executed' =
           Append(tool_calls_executed,
                  [call |-> CallDict(tool_call), result |-> r.value])

\* one turn of the loop over tool_calls in AgentWithMemory
ExecuteNextMemory ==
    /\ pc = "tools"
    /\ Len(tool_calls_executed) < Len(tool_calls)
    /\ ToolDone(tool_calls[Len(tool_calls_executed) + 1],
                execute_memory_tool_call(
                    file,
                    StrBody(tool_calls[Len(tool_calls_executed) + 1].name)[1],
                    ArgumentsOf(tool_calls[Len(tool_calls_executed) + 1].arguments),
                    clock))
    /\ clock' = clock + 1
    /\ UNCHANGED <<tool_mapping, pc, history_arg, runs, result, lastmsg, tool_calls,
                   follow_up_message, response, error, probe, final_result, entry,
                   turn, outcome, journal, writers, flights, stream>>

NextMemoryTurn ==
    \/ \E h \in Histories : MemoryChat(Query(1), h, get_memory_summary(file))
    \/ /\ pc = "await_first"
       /\ \E shape \in ResultShapes :
              \E out \in TextsOf(shape, MemoryReplies) : FirstReply(shape, out)
    \/ Extraction
    \/ ExecuteNextMemory
    \/ SendFollowUp
    \/ /\ pc = "await_second"
       /\ \E shape \in ResultShapes :
              \E out \in TextsOf(shape, SecondReplies) : SecondReply(shape, out)
    \/ BackendFailure
    \/ ChatCatches

SpecMemoryTurn == InitMemoryTurn /\ [][NextMemoryTurn]_vars

(***************************************************************************)
(* Concurrent users of one backing file.  Each call is taken step by step: *)
(* load_memories reads the file, the rest of the method works on what was  *)
(* read and save_memories writes the file.  read_text and write_text are   *)
(* one step each.                                                          *)
(***************************************************************************)
Mutators == {"add_fact", "add_preference", "remove_preference", "clear_memories"}
Accessors == {"load_memories", "get_facts", "get_preferences", "get_memory_summary"}

\* the calls the concurrent users make
WriterCalls ==
    { <<"add_fact", <<fact>>>> : fact \in FactTexts }
    \cup { <<"add_preference", <<"theme", value>>>> : value \in PreferenceValues }
    \cup { <<"remove_preference", <<"theme">>>>, <<"clear_memories", <<>>>> }
    \cup { <<op, <<>>>> : op \in Accessors }

\* the method is entered
Call(w, op, arg) ==
    /\ writers[w].pc = "idle"
    /\ writers' = [writers EXCEPT ![w] = [NoCall EXCEPT !.pc = "called", !.op = op, !.arg = arg]]
    /\ UNCHANGED <<agent_vars, file, clock, outcome, journal, flights, stream>>

\* memories = self.load_memories()
Load(w) ==
    /\ writers[w].pc = "called"
    /\ writers[w].op # "clear_memories"
    /\ writers' = [writers EXCEPT ![w].pc = "loaded", ![w].loaded = TRUE,
                                  ![w].memories = load_memories(file)]
    /\ UNCHANGED <<agent_vars, file, clock, outcome, journal, flights, stream>>

\* what the rest of the method does with the memories it loaded
Rest(f, op, arg, loaded, now) ==
    CASE op = "load_memories" -> [raised |-> loaded.raised, value |-> loaded.value, file |-> f]
      [] op = "get_facts" -> Field(f, loaded, "facts")
      [] op = "get_preferences" -> Field(f, loaded, "preferences")
      [] op = "get_memory_summary" -> SummaryOf(f, loaded)
      [] op = "add_fact" -> AddFactTo(f, loaded, arg[1], now)
      [] op = "add_preference" -> AddPreferenceTo(f, loaded, arg[1], arg[2])
      [] op = "remove_preference" -> RemovePreferenceFrom(f, loaded, arg[1])

\* the paths of the methods that reach self.save_memories(memories)
Saves(op, res) ==
    /\ ~res.raised
    /\ \/ op \in {"add_fact", "add_preference"}
       \/ op = "remove_preference" /\ res.value = <<"True">>

\* the method has ended with res
Returned(w, res) ==
    /\ file' = res.file
    /\ writers' = [writers EXCEPT ![w].pc = "done", ![w].raised = res.raised,
                                  ![w].value = res.value,
                                  ![w].wrote = Saves(writers[w].op, res),
                                  ![w].written = (IF Saves(writers[w].op, res)
                                                  THEN res.file.text ELSE <<>>)]

\* the rest of the method works on the file as it is now, not on what was
\* loaded
FinishReloading(w) ==
    /\ writers[w].pc = "loaded"
    /\ writers[w].op = "add_fact" => clock < MaxFacts
    /\ Returned(w, Rest(file, writers[w].op, writers[w].arg, load_memories(file), clock))
    /\ clock' = IF writers[w].op = "add_fact" THEN clock + 1 ELSE clock
    /\ UNCHANGED <<agent_vars, outcome, journal, flights, stream>>

\* the rest of the method, after the load
Finish(w) ==
    /\ writers[w].pc = "loaded"
    /\ writers[w].op = "add_fact" => clock < MaxFacts
    /\ Returned(w, Rest(file, writers[w].op, writers[w].arg, writers[w].memories, clock))
    /\ clock' = IF writers[w].op = "add_fact" THEN clock + 1 ELSE clock
    /\ UNCHANGED <<agent_vars, outcome, journal, flights, stream>>

\* clear_memories(): save_memories(empty_memory) and nothing else
Clear(w) ==
    /\ writers[w].pc = "called"
    /\ writers[w].op = "clear_memories"
    /\ file' = clear_memories(file).file
    /\ writers' = [writers EXCEPT ![w].pc = "done", ![w].value = <<"None">>,
                                  ![w].wrote = TRUE,
                                  ![w].written = clear_memories(file).file.text]
    /\ UNCHANGED <<agent_vars, clock, outcome, journal, flights, stream>>

NextWriters ==
    \/ \E w \in Writers, c \in WriterCalls : Call(w, c[1], c[2])
    \/ \E w \in Writers : Load(w)
    \/ \E w \in Writers : Finish(w)
    \/ \E w \in Writers : Clear(w)

SpecWriters == InitMemory /\ [][NextWriters]_vars

(***************************************************************************)
(* Concurrent completions on one agent.  The coroutines interleave at the  *)
(* two awaits of completion; what runs between two awaits is one step.     *)
(* message_history is a reference to a list object.                        *)
(***************************************************************************)
\* what a caller passes as message_history: nothing, or a list
Supplied ==
    {[given |-> FALSE, list |-> <<>>]} \cup {[given |-> TRUE, list |-> h] : h \in Histories}

\* the query of a caller
QueryOf(c) == IF c = "p" THEN Query(1) ELSE Query(2)

\* one list, made when the function was defined, stands in for every None
SharedDefaultList(heap, c, h) ==
    IF h.given THEN [ref |-> <<"own", c>>, contents |-> h.list]
    ELSE [ref |-> <<"default", "">>, contents |-> heap[<<"default", "">>]]

\* if message_history is None: message_history = []
OwnList(heap, c, h) ==
    IF h.given THEN [ref |-> <<"own", c>>, contents |-> h.list]
    ELSE [ref |-> <<"new", c>>, contents |-> <<>>]

\* the list the call works on gets the user entry
Entered(c, h, list) ==
    flights' =
        [heap |-> [flights.heap EXCEPT ![list.ref] =
                       Append(list.contents, Message("user", <<>>, QueryOf(c)))],
         calls |-> [flights.calls EXCEPT ![c] =
                       [NoFlight EXCEPT !.pc = "await_first", !.ref = list.ref,
                                        !.given = h.list, !.message = QueryOf(c)]]]

\* completion(message, message_history=h) up to the first await
Enter(c, h) ==
    /\ flights.calls[c].pc = "idle"
    /\ Entered(c, h, OwnList(flights.heap, c, h))
    /\ UNCHANGED <<agent_vars, file, clock, outcome, journal, writers, stream>>

\* the tool loop from call i on; acc holds the entries appended and the
\* executed list so far
RECURSIVE ToolLoop(_, _, _, _)
ToolStep(mapping, tcs, i, acc, tool_result) ==
    IF tool_result.raised
    THEN [acc EXCEPT !.raised = TRUE, !.error = tool_result.value]
    ELSE ToolLoop(mapping, tcs, i + 1,
                  [acc EXCEPT !.entries = Append(@, Message("tool", tcs[i].name,
                                                         tool_result.value)),
                              !.executed = Append(@, [call |-> CallDict(tcs[i]),
                                                      result |-> tool_result.value])])

ToolLoop(mapping, tcs, i, acc) ==
    IF i > Len(tcs) THEN acc
    ELSE ToolStep(mapping, tcs, i, acc, execute_tool_call(mapping, Callinfo(tcs[i])))

NoEntries == [raised |-> FALSE, error |-> <<>>, entries |-> <<>>, executed |-> <<>>]

\* the locals after the tool loop
AfterLoop(call, text, loop) ==
    IF loop.raised
    THEN [call EXCEPT !.pc = "raised", !.lastmsg = text, !.error = loop.error,
                      !.tool_calls_executed = loop.executed]
    ELSE [call EXCEPT !.pc = "await_second", !.lastmsg = text,
                      !.tool_calls_executed = loop.executed,
                      !.follow_up_message = FollowUp(loop.executed)]

\* the first reply is recorded, searched for calls, the calls are executed
AfterFirst(c, text, found, loop) ==
    flights' =
        [heap |-> [flights.heap EXCEPT ![flights.calls[c].ref] =
                       Append(@, Message("assistant", <<>>, text))
                       \o (IF found.raised THEN <<>> ELSE loop.entries)],
         calls |-> [flights.calls EXCEPT ![c] =
                       IF found.raised
                       THEN [@ EXCEPT !.pc = "raised", !.lastmsg = text,
                                      !.error = <<"RecursionError">>]
                       ELSE IF found.calls = <<>>
                       THEN [@ EXCEPT !.pc = "returned", !.lastmsg = text,
                                      !.response = text]
                       ELSE AfterLoop(@, text, loop)]]

Searched(c, text, found) ==
    AfterFirst(c, text, found,
               IF found.raised THEN NoEntries
               ELSE ToolLoop(tool_mapping, found.calls, 1, NoEntries))

\* the first agent.run returns: everything up to the second await
Resume(c, shape, out) ==
    /\ flights.calls[c].pc = "await_first"
    /\ Searched(c, ResultText(RunResult(shape, out)),
                extract_tool_calls(ResultText(RunResult(shape, out))))
    /\ UNCHANGED <<agent_vars, file, clock, outcome, journal, writers, stream>>

\* the second agent.run returns: the final entry and the return
Complete(c, shape, out) ==
    /\ flights.calls[c].pc = "await_second"
    /\ flights' =
           [heap |-> [flights.heap EXCEPT ![flights.calls[c].ref] =
                          Append(@, Message("assistant", <<>>,
                                            ResultText(RunResult(shape, out))))],
            calls |-> [flights.calls EXCEPT ![c].pc = "returned",
                           ![c].response = ResultText(RunResult(shape, out))]]
    /\ UNCHANGED <<agent_vars, file, clock, outcome, journal, writers, stream>>

\* agent.run raises at either await
Abort(c) ==
    /\ flights.calls[c].pc \in {"await_first", "await_second"}
    /\ flights' = [flights EXCEPT !.calls[c].pc = "raised",
                                  !.calls[c].error = <<"backend unavailable">>]
    /\ UNCHANGED <<agent_vars, file, clock, outcome, journal, writers, stream>>

NextFlights ==
    \/ \E c \in Callers, h \in Supplied : Enter(c, h)
    \/ \E c \in Callers :
           /\ flights.calls[c].pc = "await_first"
           /\ \E shape \in ResultShapes :
                  \E out \in TextsOf(shape, TurnReplies) : Resume(c, shape, out)
    \/ \E c \in Callers :
           /\ flights.calls[c].pc = "await_second"
           /\ \E shape \in ResultShapes :
                  \E out \in TextsOf(shape, SecondReplies) : Complete(c, shape, out)
    \/ \E c \in Callers : Abort(c)

SpecFlights == Init /\ [][NextFlights]_vars

(***************************************************************************)
(* The JSON-array form: extract_tool_calls on a text that is one array of  *)
(* call objects.                                                           *)
(***************************************************************************)
MaxItems == 3

\* the call objects of an array: <<name, arguments>>, arguments <<>> when the
\* object has no "arguments" key
ArrayElements ==
    { <<Registered, <<>>>>, <<Unregistered, <<>>>>, <<Registered, ArgsFlat>>,
      <<Unregistered, ArgsEmpty>>, <<Unregistered, ArgsFlat>> }

\* the text of a call object
EncElement(e) ==
    IF e[2] = <<>> THEN EncNameOnly(e[1]) ELSE EncStandalone(e[1], e[2])

\* '[' + ', '.join(objects) + ']'
ArrayText(items) == EncArray([i \in 1..Len(items) |-> EncElement(items[i])])

\* agent.extract_tool_calls(message) called on its own, message the array of
\* the items
ExtractArray(items) ==
    /\ pc = "idle"
    /\ lastmsg' = ArrayText(items)
    /\ LET found == extract_tool_calls(ArrayText(items))
       IN  IF found.raised
           THEN pc' = "raised" /\ error' = <<"RecursionError">> /\ UNCHANGED tool_calls
           ELSE pc' = "extracted" /\ tool_calls' = found.calls /\ UNCHANGED error
    /\ UNCHANGED <<tool_mapping, history_arg, message_history, runs, result,
                   tool_calls_executed, follow_up_message, response, probe,
                   final_result, entry, turn, memory_vars>>

NextArrays ==
    \E n \in 1..MaxItems : \E items \in [1..n -> ArrayElements] : ExtractArray(items)

SpecArrays == Init /\ [][NextArrays]_vars

(***************************************************************************)
(* The streaming consumer: stream_response_buffer reads the chunks of      *)
(* response_stream.aiter_bytes() and yields fragments.  A chunk is a       *)
(* sequence of atoms, "data:" being one atom.                              *)
(***************************************************************************)
MaxLines == 2
MaxChunks == 2

\* a byte that is not UTF-8
BadByte == "\\xff"

\* chunk.decode("utf-8")
decode(chunk) ==
    IF \E i \in 1..Len(chunk) : chunk[i] = BadByte
    THEN Raises(<<"UnicodeDecodeError">>)
    ELSE Returns(chunk)

\* str.splitlines() with "\n" as the only line break
RECURSIVE splitlines(_)
splitlines(t) ==
    IF t = <<>> THEN <<>>
    ELSE IF Find(t, 1, {NL}) >= Len(t) THEN <<SubSeq(t, 1, Find(t, 1, {NL}) - 1)>>
    ELSE <<SubSeq(t, 1, Find(t, 1, {NL}) - 1)>>
         \o splitlines(SubSeq(t, Find(t, 1, {NL}) + 1, Len(t)))

\* line.startswith("data:")
startswith_data(line) == line # <<>> /\ line[1] = "data:"

\* v.get(key, default)
get(v, key, default) ==
    IF ~IsDict(v) THEN Raises(<<"AttributeError">>)
    ELSE Returns(IF HasKey(v, key) THEN GetKey(v, key) ELSE default)

\* v[0]
FirstItem(v) ==
    IF IsList(v)
    THEN IF ListItems(v, 2) = <<>> THEN Raises(<<"IndexError">>)
         ELSE Returns(ListItems(v, 2)[1])
    ELSE IF IsDict(v) THEN Raises(<<"KeyError">>)
    ELSE IF IsStr(v)
    THEN IF StrBody(v) = <<>> THEN Raises(<<"IndexError">>)
         ELSE Returns(PyStr(<<StrBody(v)[1]>>))
    ELSE Raises(TypeErrorText)

\* the next call of a chain is made on the value of the previous one
Then(r, F(_)) == IF r.raised THEN r ELSE F(r.value)

\* what a line, or a chunk, gives: the fragments it yields and how it ends:
\* with the next line, with the break of the sentinel, with an exception
Yields(out) == [yielded |-> out, end |-> "next", error |-> <<>>]
Stops == [yielded |-> <<>>, end |-> "break", error |-> <<>>]
Fails(out, e) == [yielded |-> out, end |-> "raise", error |-> e]

\* if "content" in delta: yield delta["content"]
YieldContent(delta, found) ==
    IF found.raised THEN Fails(<<>>, found.value)
    ELSE IF ~found.value THEN Yields(<<>>)
    ELSE IF Subscript(delta, "content").raised
         THEN Fails(<<>>, Subscript(delta, "content").value)
    ELSE Yields(<<Subscript(delta, "content").value>>)

\* delta = event_data["choices"].get("delta", {})
DeltaOf(delta) ==
    IF delta.raised THEN Fails(<<>>, delta.value)
    ELSE YieldContent(delta.value, Contains(delta.value, "content"))

\* if event_data.get("choices"): ...
EventOf(choices) ==
    IF choices.raised THEN Fails(<<>>, choices.value)
    ELSE IF ~Truthy(choices.value) THEN Yields(<<>>)
    ELSE DeltaOf(get(choices.value, "delta", EmptyDict))

\* the text the sentinel is compared with
DoneText == <<LBRACK, "Done", RBRACK>>

\* the body of 'if line.startswith("data:")' for json_data
DataLine(json_data, event_data) ==
    IF json_data = DoneText THEN Stops
    ELSE IF event_data.ok THEN EventOf(get(event_data.val, "choices", <<"null">>))
    ELSE IF event_data.deep THEN Fails(<<>>, <<"RecursionError">>)
    ELSE Yields(<<>>)

\* json_data = json.loads(line) and the yield of its reasoning_content
WholeLine(out, json_data) ==
    IF json_data.deep THEN Fails(out, <<"RecursionError">>)
    ELSE IF ~json_data.ok THEN Fails(out, <<"JSONDecodeError">>)
    ELSE IF json_data.val = <<"null">> THEN Yields(out)
    ELSE LET r == Then(Then(Then(get(json_data.val, "choices", MkList(<<>>)),
                                 FirstItem),
                            LAMBDA v : IF HasKey(v, "message") \/ ~IsDict(v)
                                       THEN get(v, "message", <<"null">>)
                                       ELSE Returns(<<"null">>)),
                       LAMBDA v : get(v, "reasoning_content", <<"null">>))
         IN  IF r.raised THEN Fails(out, r.value) ELSE Yields(Append(out, r.value))

\* one turn of 'for line in decoded_chunk.splitlines()'
AfterData(line, first) ==
    IF first.end # "next" THEN first
    ELSE WholeLine(first.yielded, json_loads(line))

OneLine(line) ==
    AfterData(line,
              IF startswith_data(line)
              THEN DataLine(strip(Tail(line)), json_loads(strip(Tail(line))))
              ELSE Yields(<<>>))

\* the loop over the lines: out is what the chunk has yielded so far
RECURSIVE ForLines(_, _), AfterLine(_, _, _)
ForLines(lines, out) ==
    IF lines = <<>> THEN Yields(out)
    ELSE AfterLine(OneLine(lines[1]), Tail(lines), out)

AfterLine(r, rest, out) ==
    IF r.end = "next" THEN ForLines(rest, out \o r.yielded)
    ELSE [r EXCEPT !.yielded = out \o @]

\* the body of 'async for chunk': UnicodeDecodeError is the one exception
\* that is caught
ForChunk(decoded_chunk) ==
    IF decoded_chunk.raised THEN Yields(<<>>)
    ELSE ForLines(splitlines(decoded_chunk.value), <<>>)

\* the fragments of the content
Fragments == {"a", "b"}

\* data: {"choices": {"delta": {"content": "c"}}}
DeltaLine(c) ==
    <<"data:", SP, LBRACE>> \o Q("choices") \o <<COLON, SP, LBRACE>> \o Q("delta")
    \o <<COLON, SP, LBRACE>> \o Q("content") \o <<COLON, SP>> \o Q(c)
    \o <<RBRACE, RBRACE, RBRACE>>

\* data: {"choices": ["x"]}
ListLine ==
    <<"data:", SP, LBRACE>> \o Q("choices") \o <<COLON, SP, LBRACK>> \o Q("x")
    \o <<RBRACK, RBRACE>>

\* data: {bad
MalformedLine == <<"data:", SP, LBRACE, "bad">>

\* data: [Done]
DoneLine == <<"data:", SP>> \o DoneText

NullLine == <<"null">>

StreamLines ==
    { DeltaLine(c) : c \in Fragments } \cup { ListLine, MalformedLine, DoneLine, NullLine }

\* the chunks of the response: up to MaxLines lines, nothing, or bytes that
\* are not UTF-8
Chunks ==
    { JoinLines(ls) : ls \in UNION { [1..n -> StreamLines] : n \in 1..MaxLines } }
    \cup { <<>>, <<BadByte>> }

\* the generator takes the next chunk and runs up to the next one
ChunkDone(chunk, r) ==
    stream' = [pc |-> IF r.end = "raise" THEN "raised" ELSE "running",
               chunks |-> Append(stream.chunks, chunk),
               yielded |-> stream.yielded \o r.yielded,
               error |-> r.error,
               done |-> stream.done \/ r.end = "break"]

Consume(chunk) ==
    /\ stream.pc = "running"
    /\ Len(stream.chunks) < MaxChunks
    /\ ChunkDone(chunk, ForChunk(decode(chunk)))
    /\ UNCHANGED <<agent_vars, file, clock, outcome, journal, writers, flights>>

\* aiter_bytes() is exhausted
Exhausted ==
    /\ stream.pc = "running"
    /\ stream' = [stream EXCEPT !.pc = "ended"]
    /\ UNCHANGED <<agent_vars, file, clock, outcome, journal, writers, flights>>

NextStream ==
    \/ \E chunk \in Chunks : Consume(chunk)
    \/ Exhausted

SpecStream == Init /\ [][NextStream]_vars

(***************************************************************************)
(* Properties                                                              *)
(***************************************************************************)
\* extract_tool_calls has returned its list for lastmsg
Extracted ==
    \/ pc \in {"tools", "await_second", "returned"}
    \/ pc = "raised" /\ error = TypeErrorText

\* the list extract_tool_calls returned
Calls == [i \in 1..Len(tool_calls) |-> CallDict(tool_calls[i])]

\* the call dict of a logical call
Expected(c) == [name |-> PyStr(<<c[1]>>), arguments |-> Denotes(c[2])]

\* free text around a fragment
FreeTexts ==
    {<<>>} \cup FreePieces \cup {a \o b : a \in FreePieces, b \in FreePieces}

\* C1: a text that embeds one well-formed standalone fragment
\* {"name": N, "arguments": A} in free text yields exactly one call, with
\* name N and arguments A, whatever JSON object A is.
C1_StandaloneExact ==
    Extracted =>
        \A c \in LogicalCalls, pre \in FreeTexts, post \in FreeTexts :
            lastmsg = pre \o EncStandalone(c[1], c[2]) \o post
            => Calls = <<Expected(c)>>

\* C2: the text <tool_call>{"name": N, "arguments": {}}</tool_call> yields a
\* list of exactly one call, {name: N, arguments: {}}.
C2_TaggedOnce ==
    Extracted =>
        \A n \in {Registered, Unregistered} :
            lastmsg = EncTaggedInline(EncStandalone(n, ArgsEmpty))
            => Calls = <<Expected(<<n, ArgsEmpty>>)>>

\* the texts that carry the logical call c in one of the five forms
FormsOf(c) ==
    { EncStandalone(c[1], c[2]),
      EncArray(<<EncStandalone(c[1], c[2])>>),
      EncBracket(c[1], c[2]),
      EncTagged(EncStandalone(c[1], c[2])),
      EncTaggedInline(EncStandalone(c[1], c[2])) }
    \cup (IF c[2] = ArgsEmpty THEN {EncNameOnly(c[1])} ELSE {})

\* C3: format independence: whichever of the five forms carries the logical
\* call (N, A), the returned list contains a call with name N and arguments A.
C3_FormatIndependence ==
    Extracted =>
        \A c \in LogicalCalls :
            lastmsg \in FormsOf(c)
            => \E i \in 1..Len(Calls) : Calls[i] = Expected(c)

\* the two standalone forms of one name, in either order, free text between
BothStandalone(c) ==
    UNION { { EncStandalone(c[1], c[2]) \o mid \o EncNameOnly(c[1]),
              EncNameOnly(c[1]) \o mid \o EncStandalone(c[1], c[2]) }
            : mid \in {<<>>} \cup FreePieces }

\* C4: pattern 2 never adds an entry for a name already in the list, and a
\* text with {"name": N} and the with-arguments object of the same N, once
\* pattern 1 has captured N, yields exactly one call for N: the one of
\* pattern 1.
C4_StandaloneDedup ==
    Extracted =>
        /\ \A i \in 1..Len(tool_calls) :
               tool_calls[i].pat = 2
               => \A j \in 1..(i - 1) : tool_calls[j].name # tool_calls[i].name
        /\ \A c \in LogicalCalls :
               /\ lastmsg \in BothStandalone(c)
               /\ \E i \in 1..Len(tool_calls) :
                      tool_calls[i].pat = 1 /\ tool_calls[i].name = PyStr(<<c[1]>>)
               => /\ Len(tool_calls) = 1
                  /\ tool_calls[1].pat = 1
                  /\ tool_calls[1].name = PyStr(<<c[1]>>)

\* the name-only object follows the with-arguments object of the same name
\* and one call, with the arguments, is returned
C4_Witness ==
    /\ Extracted
    /\ lastmsg = EncStandalone(Registered, ArgsFlat) \o EncNameOnly(Registered)
    /\ Calls = <<Expected(<<Registered, ArgsFlat>>)>>

\* C5: every returned call has a non-empty name (a str) and an arguments
\* field.
C5_NamedCalls ==
    Extracted =>
        \A i \in 1..Len(tool_calls) :
            /\ IsStr(tool_calls[i].name)
            /\ StrBody(tool_calls[i].name) # <<>>
            /\ tool_calls[i].arguments # <<>>

\* the pieces with a well-formed call, and what each yields on its own
WellFormedPieces ==
    { EncStandalone(Registered, ArgsFlat), EncStandalone(Unregistered, ArgsEmpty),
      EncNameOnly(Unregistered), EncBracket(Registered, ArgsFlat),
      EncTagged(EncStandalone(Registered, ArgsFlat)) }

\* the pieces that match a pattern and fail JSON parsing
UnparsablePieces == { BadStandalone, BadBracket, BadTagged, DeepTagged }

\* C6: extract_tool_calls never raises, and a fragment that matches a pattern
\* and fails JSON parsing does not keep the well-formed calls of the same
\* text out of the list.
C6_TolerantExtraction ==
    /\ ~(pc = "raised" /\ error = <<"RecursionError">>)
    /\ Extracted =>
           \A m \in UnparsablePieces, w \in WellFormedPieces :
               lastmsg \in {m \o w, w \o m}
               => \A k \in 1..Len(extract_tool_calls(w).calls) :
                      \E i \in 1..Len(Calls) :
                          Calls[i] = CallDict(extract_tool_calls(w).calls[k])

\* x was found before y: by an earlier pattern, or by the same pattern
\* further left
FoundBefore(x, y) ==
    \/ x.pat < y.pat
    \/ x.pat = y.pat /\ x.at < y.at
    \/ x.pat = y.pat /\ x.at = y.at /\ x.idx < y.idx

\* C7: the list is ordered by pattern, 1 to 5, and within one pattern from
\* left to right: two standalone calls keep their order in the text, and a
\* standalone call comes before an array call that precedes it in the text.
C7_CategoryMajor ==
    Extracted =>
        /\ \A i \in 1..Len(tool_calls), j \in 1..Len(tool_calls) :
               i < j => FoundBefore(tool_calls[i], tool_calls[j])
        /\ lastmsg = EncStandalone(Registered, ArgsFlat)
                     \o EncStandalone(Unregistered, ArgsEmpty)
           => Calls = <<Expected(<<Registered, ArgsFlat>>),
                        Expected(<<Unregistered, ArgsEmpty>>)>>
        /\ lastmsg = EncTagged(EncStandalone(Registered, ArgsFlat))
                     \o EncNameOnly(Unregistered)
           => Calls = <<Expected(<<Registered, ArgsFlat>>),
                        Expected(<<Unregistered, ArgsEmpty>>),
                        Expected(<<Registered, ArgsFlat>>)>>

\* a tagged call precedes a standalone one in the text and follows it in
\* the list
C7_Witness ==
    /\ Extracted
    /\ lastmsg = EncTagged(EncStandalone(Registered, ArgsFlat))
                 \o EncNameOnly(Unregistered)
    /\ Len(tool_calls) = 3
    /\ tool_calls[2].pat = 2
    /\ tool_calls[3].pat = 5
    /\ tool_calls[3].at < tool_calls[2].at

\* C8: execute_tool_call never raises and returns, in this order of checks,
\* the invalid-format string, the unknown-tool string with the name, the
\* error-executing string, or the string form of what the function returned.
C8_ExecuteTotal ==
    probe.called =>
        LET d == probe.callinfo
            args == IF d.has_arguments THEN d.arguments ELSE EmptyDict
        IN  /\ ~probe.raised
            /\ IF ~d.is_dict \/ ~d.has_name
               THEN probe.value = <<"Error: Invalid tool call format">>
               ELSE IF d.name \notin tool_mapping
               THEN /\ Head(probe.value) = "Error: Unknown tool '"
                    /\ probe.value = <<"Error: Unknown tool '">> \o PyToStr(d.name)
                                     \o <<"'">>
               ELSE IF CallTool(d.name, args).raised
               THEN probe.value = <<"Error executing ">> \o PyToStr(d.name) \o <<": ">>
                                  \o CallTool(d.name, args).value
               ELSE probe.value = PyToStr(CallTool(d.name, args).value)

\* C9: in the calls-found branch every extracted call is executed and gets
\* its tool entry: no call aborts the loop, and the second generation is
\* reached with all of them executed.
C9_LoopCompletes ==
    /\ ~(pc = "raised" /\ Len(tool_calls_executed) < Len(tool_calls))
    /\ pc \in {"await_second", "returned"}
       => /\ Len(tool_calls_executed) = Len(tool_calls)
          /\ \A i \in 1..Len(tool_calls) :
                 tool_calls_executed[i].call = CallDict(tool_calls[i])

\* the text the backend replied with at the first generation
FirstReplyText ==
    IF result.shape = "neither" THEN <<"AgentRunResult">> ELSE result.text

NoCallsReturned == pc = "returned" /\ tool_calls = <<>>

\* C10: in the no-calls branch the model is run once, no tool is executed,
\* the response is the first reply verbatim and the transcript grows by the
\* user message and the assistant reply.
C10_NoCallsVerbatim ==
    NoCallsReturned =>
        /\ Len(runs) = 1
        /\ tool_calls_executed = <<>>
        /\ response = FirstReplyText
        /\ message_history =
               history_arg \o << Message("user", <<>>, runs[1]),
                                 Message("assistant", <<>>, FirstReplyText) >>

\* C10 as amended: the response is the reply as completion reads it off the
\* result, stripped of surrounding whitespace when it is read from
\* result.output
C10_NoCallsBranch ==
    NoCallsReturned =>
        /\ Len(runs) = 1
        /\ tool_calls_executed = <<>>
        /\ result.shape = "output" => response = strip(result.text)
        /\ result.shape = "data" => response = result.text
        /\ message_history =
               history_arg \o << Message("user", <<>>, runs[1]),
                                 Message("assistant", <<>>, response) >>

\* a reply with whitespace around it, read from result.output, was returned
\* by the no-calls branch to a caller that passed a transcript
C10_Witness ==
    /\ NoCallsReturned
    /\ history_arg # <<>>
    /\ result.shape = "output"
    /\ result.text # strip(result.text)
    /\ response = <<"txt">>

\* the text the backend replied with at the second generation
SecondReplyText ==
    IF final_result.shape = "neither" THEN <<"AgentRunResult">> ELSE final_result.text

CallsReturned == pc = "returned" /\ tool_calls # <<>>

\* the string execute_tool_call gives for the i-th extracted call
ResultOf(i) == execute_tool_call(tool_mapping, Callinfo(tool_calls[i])).value

\* the transcript entries after those the caller passed
Appended == SubSeq(message_history, Len(history_arg) + 1, Len(message_history))

\* the entries a completion with calls appends, for given reply texts
CallsEntries(first, second) ==
    << Message("user", <<>>, runs[1]), Message("assistant", <<>>, first) >>
    \o [i \in 1..Len(tool_calls) |-> Message("tool", tool_calls[i].name, ResultOf(i))]
    \o << Message("assistant", <<>>, second) >>

RECURSIVE Sorted(_)
Sorted(S) ==
    IF S = {} THEN <<>>
    ELSE LET least == CHOOSE x \in S : \A y \in S : x <= y
         IN  <<least>> \o Sorted(S \ {least})

Breaks(text) ==
    Sorted({0} \cup {p \in 1..Len(text) : text[p] = NL} \cup {Len(text) + 1})

\* the lines of a text
LinesOn(text, breaks) ==
    [i \in 1..(Len(breaks) - 1) |-> SubSeq(text, breaks[i] + 1, breaks[i + 1] - 1)]

Lines(text) == LinesOn(text, Breaks(text))

\* the second generation has been asked for
FollowUpSent == pc \in {"await_second", "returned"} /\ tool_calls # <<>>

\* C12: the prompt of the second generation is the follow-up message, and
\* its i-th line is "Tool '<name>' returned: <result>" for the i-th executed
\* call, the result being the string execute_tool_call returned for it.
C12_FollowUpLines ==
    FollowUpSent =>
        /\ runs = <<runs[1], follow_up_message>>
        /\ Len(Lines(follow_up_message)) >= Len(tool_calls_executed)
        /\ \A i \in 1..Len(tool_calls_executed) :
               /\ tool_calls_executed[i].call = CallDict(tool_calls[i])
               /\ Lines(follow_up_message)[i] =
                      <<"Tool '">> \o StrBody(tool_calls[i].name)
                      \o <<"' returned: ">> \o ResultOf(i)

\* the follow-up has been sent after two calls with different results
C12_Witness ==
    /\ pc = "await_second"
    /\ Len(tool_calls_executed) = 2
    /\ ResultOf(1) # ResultOf(2)
    /\ runs[2] = follow_up_message

\* the tool entries of the transcript
ToolEntries == {i \in 1..Len(message_history) : message_history[i].role = "tool"}

\* the second reply carries a tool call
SecondHasCall ==
    ResultText(final_result) = EncTagged(EncStandalone(Registered, ArgsFlat))

\* the step leaves the extracted calls and the executed ones as they are
SecondReplyKeepsCalls ==
    /\ tool_calls' = tool_calls
    /\ tool_calls_executed' = tool_calls_executed

\* C13: one round of tool resolution per completion: the model is invoked at
\* most twice, a completion that returns has executed as many tools as the
\* first reply had calls, and a call in the second reply is neither extracted
\* nor executed.
C13_OneRound ==
    /\ [](/\ Len(runs) <= 2
          /\ Len(tool_calls_executed) <= Len(tool_calls)
          /\ pc = "returned" =>
                 /\ Len(runs) = (IF tool_calls = <<>> THEN 1 ELSE 2)
                 /\ Len(tool_calls_executed) = Len(tool_calls)
                 /\ Cardinality(ToolEntries) = Len(tool_calls)
          /\ pc = "returned" /\ SecondHasCall =>
                 /\ response = EncTagged(EncStandalone(Registered, ArgsFlat))
                 /\ message_history[Len(message_history)].role = "assistant")
    /\ [][pc = "await_second" => SecondReplyKeepsCalls]_vars

\* a completion has returned a second reply that carries a tool call
C13_Witness ==
    /\ pc = "returned"
    /\ SecondHasCall
    /\ Len(runs) = 2
    /\ Len(tool_calls_executed) = 1
    /\ extract_tool_calls(response).calls # <<>>

\* a is a prefix of b
IsPrefix(a, b) == Len(a) <= Len(b) /\ SubSeq(b, 1, Len(a)) = a

\* C14: the transcript is append-only: every step of a conversation leaves
\* the transcript or extends it at the end, so what the caller passed in is
\* an unchanged prefix of what is returned, followed by the user entry of the
\* turn, and the turns follow each other in the order they were made.
C14_AppendOnly ==
    /\ [](pc # "idle" =>
             /\ IsPrefix(history_arg, message_history)
             /\ Len(message_history) > Len(history_arg)
             /\ message_history[Len(history_arg) + 1] =
                    Message("user", <<>>, Query(turn)))
    /\ [][IsPrefix(message_history, message_history')]_vars

\* the second turn has returned after the first turn's transcript was passed
C14_Witness ==
    /\ pc = "returned"
    /\ turn = 2
    /\ Len(history_arg) >= 4
    /\ history_arg[Len(history_arg)].role = "assistant"
    /\ tool_calls_executed # <<>>

\* the text of the exception a failing backend raises
BackendError == <<"backend unavailable">>

\* the generation step that failed was the first one
FailedFirst == follow_up_message = <<>>

\* C15: when the backend fails during either generation step chat returns
\* 'Error: <message>' instead of raising, and the failed step is not retried:
\* the backend was invoked once for it and no generation step follows.
C15_ChatReturnsError ==
    /\ [](pc = "raised" /\ entry = "chat" => ENABLED ChatCatches)
    /\ [](pc = "caught" /\ error = BackendError =>
             /\ response = <<"Error: ">> \o BackendError
             /\ runs = (IF FailedFirst THEN <<Query(turn)>>
                        ELSE <<Query(turn), follow_up_message>>)
             /\ message_history[Len(message_history)].role =
                    (IF FailedFirst THEN "user" ELSE "tool"))
    /\ [][pc = "raised" /\ entry = "chat" =>
              /\ pc' = "caught"
              /\ runs' = runs
              /\ message_history' = message_history]_vars

\* chat has returned the error text after the second generation step failed
C15_Witness ==
    /\ pc = "caught"
    /\ entry = "chat"
    /\ error = BackendError
    /\ ~FailedFirst
    /\ Len(runs) = 2

\* C16: the conversation never crashes: no exception reaches the caller of an
\* entry point; an exception that leaves completion is still inside chat,
\* which turns it into the returned text.
C16_NeverRaises == pc = "raised" => entry = "chat"

\* the file a call found does not hold a document: it is absent, empty, not
\* JSON, or JSON without facts, preferences and conversations
Malformed(f) ==
    \/ ~f.exists
    \/ ~json_loads(f.text).ok
    \/ ~IsDict(json_loads(f.text).val)
    \/ \E field \in {"facts", "preferences", "conversations"} :
           ~HasKey(json_loads(f.text).val, field)

\* what the call would have left on a store without a file
OnEmpty(op, arg) ==
    CASE op = "load_memories" -> Done(NoFile, EmptyMemory)
      [] op = "get_facts" -> Done(NoFile, MkList(<<>>))
      [] op = "get_preferences" -> Done(NoFile, EmptyDict)
      [] op = "get_memory_summary" -> Done(NoFile, SummaryHeader)
      [] op = "add_fact" -> add_fact(NoFile, arg[1], clock - 1)
      [] op = "add_preference" -> add_preference(NoFile, arg[1], arg[2])
      [] op = "remove_preference" -> Done(NoFile, <<"False">>)
      [] op = "clear_memories" -> clear_memories(NoFile)

\* C17: missing or malformed backing storage is never an error: on every
\* such file every call of the manager completes without raising, returns
\* what it returns on an empty store, and a mutator leaves the file it would
\* have left there.
C17_MalformedIsEmpty ==
    outcome.op # "none" /\ Malformed(outcome.before) =>
        /\ ~outcome.raised
        /\ outcome.value = OnEmpty(outcome.op, outcome.arg).value
        /\ outcome.op \in {"add_fact", "add_preference", "clear_memories"} =>
               file = OnEmpty(outcome.op, outcome.arg).file

\* the facts a load of the file gives, and their contents
FactsOf(f) == ListItems(get_facts(f).value, 2)

ContentsOf(f) ==
    LET facts == FactsOf(f)
    IN  [i \in 1..Len(facts) |-> GetKey(facts[i], "content")]

LastFact(f) == LET facts == FactsOf(f) IN facts[Len(facts)]

\* C18: fact round-trip and append order: after add_fact(f) has returned, a
\* load gives a document whose last fact has content f and a timestamp, behind
\* the facts that were there before, unchanged and in their order; so the
\* facts added to an empty store are returned in the order they were added.
C18_FactRoundTrip ==
    /\ outcome.op = "add_fact" /\ ~outcome.raised =>
           /\ ~get_facts(file).raised
           /\ FactsOf(file) = FactsOf(outcome.before) \o <<LastFact(file)>>
           /\ GetKey(LastFact(file), "content") = PyStr(outcome.arg)
           /\ HasKey(LastFact(file), "timestamp")
           /\ IsStr(GetKey(LastFact(file), "timestamp"))
    /\ journal.empty =>
           /\ ~get_facts(file).raised
           /\ ContentsOf(file) = [i \in 1..Len(journal.facts) |-> Q(journal.facts[i])]

\* two different facts were added to an empty store, the second one last
C18_Witness ==
    /\ outcome.op = "add_fact"
    /\ ~outcome.raised
    /\ journal.empty
    /\ Len(journal.facts) = 2
    /\ journal.facts[1] # journal.facts[2]
    /\ Len(FactsOf(outcome.before)) = 1

\* the preferences a load of the file gives
PrefsOf(f) == get_preferences(f).value

\* how often the key occurs in the dict
Occurrences(d, key) ==
    Cardinality({i \in 1..Len(DictItems(d, 2)) : DictItems(d, 2)[i][1] = PyStr(<<key>>)})

\* the dict holds the key once, with the value
HoldsOnce(d, key, value) ==
    /\ HasKey(d, key)
    /\ GetKey(d, key) = value
    /\ Occurrences(d, key) = 1

\* C19: preferences are last-write-wins with unique keys: after
\* add_preference(k, v) has returned get_preferences()[k] is v and k occurs
\* once, whatever k held before; after any sequence of mutators k holds the
\* value of the last add_preference(k, .) unless remove_preference(k) or
\* clear_memories came after it, and then k is absent.
C19_LastWriteWins ==
    /\ outcome.op = "add_preference" /\ ~outcome.raised =>
           /\ ~get_preferences(file).raised
           /\ HoldsOnce(PrefsOf(file), outcome.arg[1], outcome.arg[2])
    /\ \A k \in PreferenceKeys :
           IF k \in DOMAIN journal.prefs
           THEN /\ ~get_preferences(file).raised
                /\ IF journal.prefs[k] = <<"removed">>
                   THEN ~HasKey(PrefsOf(file), k)
                   ELSE HoldsOnce(PrefsOf(file), k, journal.prefs[k])
           ELSE journal.empty =>
                    /\ ~get_preferences(file).raised
                    /\ ~HasKey(PrefsOf(file), k)

\* add_preference(k, v2) has returned on a store where k held another value
C19_Witness ==
    /\ outcome.op = "add_preference"
    /\ ~outcome.raised
    /\ ~get_preferences(outcome.before).raised
    /\ HasKey(PrefsOf(outcome.before), outcome.arg[1])
    /\ GetKey(PrefsOf(outcome.before), outcome.arg[1]) # outcome.arg[2]
    /\ Len(DictItems(PrefsOf(file), 2)) = 2

\* C20: remove_preference(k) returns True and removes exactly key k, every
\* other preference and the facts kept, when k exists; it returns False and
\* leaves the whole persisted document as it was when k is absent.
C20_RemovePreference ==
    outcome.op = "remove_preference" /\ ~outcome.raised =>
        /\ ~get_preferences(outcome.before).raised
        /\ IF HasKey(PrefsOf(outcome.before), outcome.arg[1])
           THEN /\ outcome.value = <<"True">>
                /\ ~get_preferences(file).raised
                /\ DictItems(PrefsOf(file), 2) =
                       DelItem(DictItems(PrefsOf(outcome.before), 2),
                               PyStr(<<outcome.arg[1]>>))
                /\ ~HasKey(PrefsOf(file), outcome.arg[1])
                /\ get_facts(file) = [get_facts(outcome.before) EXCEPT !.file = file]
           ELSE /\ outcome.value = <<"False">>
                /\ file = outcome.before

\* one of two preferences was removed; the other one is still there
C20_Witness ==
    /\ outcome.op = "remove_preference"
    /\ outcome.value = <<"True">>
    /\ Len(DictItems(PrefsOf(outcome.before), 2)) = 2
    /\ Len(DictItems(PrefsOf(file), 2)) = 1
    /\ FactsOf(file) # <<>>

\* the text occurs in the summary
Occurs(text, summary) ==
    \E i \in 1..Len(summary) :
        i + Len(text) - 1 <= Len(summary)
        /\ SubSeq(summary, i, i + Len(text) - 1) = text

\* the bullets the stored facts and preferences should give
ExpectedFactBullets(f) ==
    LET contents == ContentsOf(f)
    IN  [i \in 1..Len(contents) |-> <<"-", SP>> \o StrBody(contents[i]) \o <<NL>>]

ExpectedPreferenceBullets(f) ==
    LET its == DictItems(PrefsOf(f), 2)
    IN  [i \in 1..Len(its) |->
            <<"-", SP>> \o StrBody(its[i][1]) \o <<COLON, SP>>
            \o PyToStr(its[i][2]) \o <<NL>>]

RECURSIVE Flatten(_)
Flatten(texts) == IF texts = <<>> THEN <<>> ELSE texts[1] \o Flatten(Tail(texts))

\* C21: the summary get_memory_summary returns starts with the header
\* '=== LONG-TERM MEMORY ==='; the 'Known Facts:' section is there exactly when
\* there are facts, with one '- <content>' bullet per fact in order; the
\* 'User Preferences:' section is there exactly when there are preferences,
\* with one '- <key>: <value>' bullet per entry.
C21_SummaryFormat ==
    outcome.op = "get_memory_summary" /\ ~outcome.raised =>
        /\ ~get_facts(file).raised
        /\ ~get_preferences(file).raised
        /\ outcome.value =
               SummaryHeader
               \o (IF FactsOf(file) = <<>> THEN <<>>
                   ELSE <<NL, "Known Facts:", NL>> \o Flatten(ExpectedFactBullets(file)))
               \o (IF DictItems(PrefsOf(file), 2) = <<>> THEN <<>>
                   ELSE <<NL, "User Preferences:", NL>>
                        \o Flatten(ExpectedPreferenceBullets(file)))
        /\ Occurs(<<"Known Facts:">>, outcome.value) <=> FactsOf(file) # <<>>
        /\ Occurs(<<"User Preferences:">>, outcome.value) <=>
               DictItems(PrefsOf(file), 2) # <<>>
        /\ journal.empty => Len(FactsOf(file)) = Len(journal.facts)

\* a summary of two facts and no preference was returned after mutators
C21_Witness ==
    /\ outcome.op = "get_memory_summary"
    /\ ~outcome.raised
    /\ journal.empty
    /\ Len(journal.facts) = 2
    /\ DOMAIN journal.prefs # {}
    /\ ~Occurs(<<"User Preferences:">>, outcome.value)
    /\ Occurs(<<"-", SP, "lives in Oslo", NL, "-", SP, "likes tea", NL>>, outcome.value)

\* the conversations a load of the file gives
ConversationsOf(f) == Field(f, load_memories(f), "conversations")

\* C22: the document is reset only by an explicit clear: clear_memories
\* leaves facts, preferences and conversations empty whatever was stored, and
\* no other call removes a stored fact or shortens the facts: the facts that
\* were there before the call are a prefix of the facts after it.
C22_ResetOnlyByClear ==
    /\ outcome.op = "clear_memories" =>
           /\ ~outcome.raised
           /\ load_memories(file) = Returns(EmptyMemory)
           /\ get_facts(file) = Done(file, MkList(<<>>))
           /\ get_preferences(file) = Done(file, EmptyDict)
           /\ ConversationsOf(file) = Done(file, MkList(<<>>))
    /\ /\ outcome.op \notin {"none", "clear_memories"}
       /\ ~get_facts(outcome.before).raised
       /\ IsList(get_facts(outcome.before).value)
       => /\ ~get_facts(file).raised
          /\ IsList(get_facts(file).value)
          /\ IsPrefix(FactsOf(outcome.before), FactsOf(file))

\* a store with facts and preferences was cleared
C22_Witness ==
    /\ outcome.op = "clear_memories"
    /\ ~get_facts(outcome.before).raised
    /\ Len(FactsOf(outcome.before)) = 2
    /\ ~get_preferences(outcome.before).raised
    /\ DictItems(PrefsOf(outcome.before), 2) # <<>>
    /\ FactsOf(file) = <<>>

\* the text is what json.dumps gives for one whole document
Whole(text) ==
    /\ json_loads(text).ok
    /\ IsDict(json_loads(text).val)
    /\ json_dumps(json_loads(text).val) = text

\* C23 as stated: each of the four mutators performs load-full-document,
\* mutate in memory, write-full-document, and the accessors never write: a
\* mutator that has returned has loaded the document, and has written a whole
\* document unless it found nothing to change.
C23_LoadMutateWrite ==
    \A w \in Writers :
        writers[w].pc = "done" /\ ~writers[w].raised =>
            IF writers[w].op \in Mutators
            THEN /\ writers[w].loaded
                 /\ writers[w].value # <<"False">> =>
                        writers[w].wrote /\ Whole(writers[w].written)
            ELSE ~writers[w].wrote

\* C23: the whole document is the unit of persistence: add_fact,
\* add_preference and a remove_preference that finds its key load the
\* document and write a whole document; clear_memories writes the whole empty
\* document without loading; a remove_preference that does not find its key
\* writes nothing; the file changes only by such a write; the accessors never
\* write or create the file.
C23_WholeDocument ==
    /\ [](\A w \in Writers :
             writers[w].pc = "done" /\ ~writers[w].raised =>
                 IF writers[w].op \in Mutators
                 THEN /\ writers[w].loaded <=> writers[w].op # "clear_memories"
                      /\ writers[w].wrote <=> writers[w].value # <<"False">>
                      /\ writers[w].wrote => Whole(writers[w].written)
                      /\ writers[w].op = "clear_memories" =>
                             writers[w].written = json_dumps(EmptyMemory)
                 ELSE ~writers[w].wrote)
    /\ [][\A w \in Writers :
              /\ writers'[w] # writers[w] /\ writers'[w].op \in Accessors =>
                     file' = file
              /\ writers'[w] # writers[w] /\ ~writers'[w].wrote => file' = file
              /\ writers'[w] # writers[w] /\ writers'[w].wrote =>
                     file' = FileWith(writers'[w].written)]_vars

\* add_preference has written a whole document that still holds the fact of
\* the file it loaded
C23_Witness ==
    \E w \in Writers :
        /\ writers[w].pc = "done"
        /\ writers[w].op = "add_preference"
        /\ writers[w].loaded
        /\ writers[w].wrote
        /\ file = FileWith(writers[w].written)
        /\ ~get_facts(file).raised
        /\ FactsOf(file) # <<>>

\* what the user loaded is a document with facts and preferences
LoadedDocument(w) ==
    /\ ~writers[w].memories.raised
    /\ IsDict(writers[w].memories.value)
    /\ HasKey(writers[w].memories.value, "facts")
    /\ IsList(GetKey(writers[w].memories.value, "facts"))
    /\ HasKey(writers[w].memories.value, "preferences")
    /\ IsDict(GetKey(writers[w].memories.value, "preferences"))

\* the facts of what the user loaded and of what it wrote
LoadedFacts(w) ==
    IF IsDict(writers[w].memories.value) /\ HasKey(writers[w].memories.value, "facts")
    THEN ListItems(GetKey(writers[w].memories.value, "facts"), 2)
    ELSE <<>>
WrittenFacts(w) == ListItems(GetKey(json_loads(writers[w].written).val, "facts"), 2)

\* C24: concurrent mutators can lose updates and nothing else goes wrong: a
\* mutator writes the document it loaded with its own change, whatever was
\* written to the file since it loaded; the file is always a whole document
\* one of the users wrote, once any of them has written; and no user that
\* loaded a document gets an error.
C24_LastWriterWins ==
    /\ \A w \in Writers :
           /\ writers[w].pc = "done" /\ writers[w].loaded /\ LoadedDocument(w) =>
                  ~writers[w].raised
           /\ writers[w].wrote => Whole(writers[w].written)
           /\ writers[w].wrote /\ writers[w].op = "add_fact" =>
                  WrittenFacts(w) = LoadedFacts(w) \o <<WrittenFacts(w)[Len(WrittenFacts(w))]>>
           /\ writers[w].wrote /\ writers[w].op # "add_fact" /\ writers[w].loaded =>
                  WrittenFacts(w) = LoadedFacts(w)
    /\ (\E w \in Writers : writers[w].wrote) =>
           \E w \in Writers : writers[w].wrote /\ file = FileWith(writers[w].written)

\* two add_fact calls with different facts have both returned without an error
\* and the file holds one fact: the other one is lost
C24_Witness ==
    /\ \A w \in Writers :
           /\ writers[w].pc = "done"
           /\ writers[w].op = "add_fact"
           /\ writers[w].wrote
           /\ ~writers[w].raised
           /\ LoadedFacts(w) = <<>>
    /\ writers["a"].arg # writers["b"].arg
    /\ file = FileWith(writers["b"].written)
    /\ Len(FactsOf(file)) = 1
    /\ GetKey(FactsOf(file)[1], "content") = PyStr(writers["b"].arg)

\* the tool entries of an executed list
ToolEntriesOf(executed) ==
    [i \in 1..Len(executed) |->
        Message("tool", executed[i].call.name, executed[i].result)]

\* the entries a returned completion has put on its list
OwnEntries(call) ==
    <<Message("user", <<>>, call.message), Message("assistant", <<>>, call.lastmsg)>>
    \o ToolEntriesOf(call.tool_calls_executed)
    \o (IF call.tool_calls_executed = <<>> THEN <<>>
        ELSE <<Message("assistant", <<>>, call.response)>>)

\* C25: concurrent completions are independent: the transcript a completion
\* returns is what its caller passed in (nothing when no transcript was
\* passed) followed by that call's own entries only, in the order user,
\* assistant, tool..., assistant, however the calls interleave and whatever
\* an earlier call did.
C25_IndependentCalls ==
    \A c \in Callers :
        flights.calls[c].pc = "returned" =>
            flights.heap[flights.calls[c].ref] =
                flights.calls[c].given \o OwnEntries(flights.calls[c])

\* both calls were made without a transcript, each ran its tool while the
\* other one was in flight, and both have returned
C25_Witness ==
    /\ \A c \in Callers :
           /\ flights.calls[c].pc = "returned"
           /\ flights.calls[c].ref = <<"new", c>>
           /\ flights.calls[c].tool_calls_executed # <<>>
           /\ Len(flights.heap[flights.calls[c].ref]) =
                  3 + Len(flights.calls[c].tool_calls_executed)
    /\ flights.calls["p"].response # flights.calls["q"].response

\* the call dict of a call object of an array: the arguments of an object
\* without the key are {}
ExpectedElement(e) ==
    [name |-> PyStr(<<e[1]>>),
     arguments |-> IF e[2] = <<>> THEN EmptyDict ELSE Denotes(e[2])]

\* C26: a text that is one JSON array of n call objects yields exactly n
\* calls, in array order, an object without "arguments" getting {}.
C26_ArrayForm ==
    pc = "extracted" =>
        \A n \in 1..MaxItems : \A items \in [1..n -> ArrayElements] :
            lastmsg = ArrayText(items)
            => Calls = [i \in 1..n |-> ExpectedElement(items[i])]

\* a load of the file gives a document with the three fields
Healthy(f) == load_memories(f) = Returns(EmptyMemory) \/ ~Malformed(f)

\* C27: in AgentWithMemory an extracted saveMemory call executed through
\* execute_tool_call changes the store: arguments {memory_type: 'fact',
\* content: c} append a fact with content c and give 'Fact saved to memory';
\* any other memory_type with a key k sets preference k to c and gives
\* 'Preference saved to memory'.
C27_SaveMemoryTool ==
    /\ outcome.op = "saveMemory"
    /\ ~outcome.arg.has_ctx
    /\ Healthy(outcome.before)
    => IF outcome.arg.memory_type = "fact"
       THEN /\ outcome.value = <<"Fact saved to memory">>
            /\ ContentsOf(file)
                   = Append(ContentsOf(outcome.before), Q(outcome.arg.content))
       ELSE /\ outcome.value = <<"Preference saved to memory">>
            /\ HoldsOnce(PrefsOf(file), outcome.arg.key, Q(outcome.arg.content))

\* the lines of the chunks, in the order they were read
RECURSIVE LinesRead(_)
LinesRead(chunks) ==
    IF chunks = <<>> THEN <<>>
    ELSE splitlines(chunks[1]) \o LinesRead(Tail(chunks))

\* the well-formed data lines
DeltaLines == { DeltaLine(c) : c \in Fragments }

\* the content fragments of the well-formed data lines before the sentinel
RECURSIVE FragmentsBeforeDone(_)
FragmentsBeforeDone(lines) ==
    IF lines = <<>> \/ lines[1] = DoneLine THEN <<>>
    ELSE IF lines[1] \in DeltaLines
    THEN <<Q(CHOOSE c \in Fragments : lines[1] = DeltaLine(c))>>
         \o FragmentsBeforeDone(Tail(lines))
    ELSE FragmentsBeforeDone(Tail(lines))

\* C28: streaming consumer: whatever chunks of data lines have been read,
\* every well-formed data line has yielded its content fragment, a malformed
\* fragment was skipped and the stream has not failed, and nothing is yielded
\* from the sentinel line on, in its chunk or in a later one.
C28_StreamingConsumer ==
    (\A i \in 1..Len(LinesRead(stream.chunks)) :
         LinesRead(stream.chunks)[i] \in DeltaLines \cup {MalformedLine, DoneLine})
    => /\ stream.pc # "raised"
       /\ stream.yielded = FragmentsBeforeDone(LinesRead(stream.chunks))

\* the document a load of the file gives
DocumentOf(f) == load_memories(f).value

\* the pairs of the dict under the other keys
OtherItems(d, key) == SelectSeq(DictItems(d, 2), LAMBDA it : it[1] # PyStr(<<key>>))

\* C29: frame of the memory mutators: add_fact changes only the facts, by
\* appending exactly one element; add_preference and remove_preference change
\* only the preferences, and at most the key given; none of the three changes
\* conversations, which stays empty on a store that started empty.
C29_MutatorFrame ==
    /\ outcome.op = "add_fact" /\ ~outcome.raised =>
           /\ OtherItems(DocumentOf(file), "facts")
                  = OtherItems(DocumentOf(outcome.before), "facts")
           /\ Len(FactsOf(file)) = Len(FactsOf(outcome.before)) + 1
           /\ IsPrefix(FactsOf(outcome.before), FactsOf(file))
    /\ outcome.op \in {"add_preference", "remove_preference"} /\ ~outcome.raised =>
           /\ OtherItems(DocumentOf(file), "preferences")
                  = OtherItems(DocumentOf(outcome.before), "preferences")
           /\ OtherItems(PrefsOf(file), outcome.arg[1])
                  = OtherItems(PrefsOf(outcome.before), outcome.arg[1])
    /\ /\ outcome.op \in {"add_fact", "add_preference", "remove_preference"}
       /\ ~outcome.raised
       /\ ~ConversationsOf(outcome.before).raised
       => ConversationsOf(file).value = ConversationsOf(outcome.before).value
    /\ journal.empty => ConversationsOf(file) = Done(file, MkList(<<>>))

\* a preference was added to a store that held a fact and another preference
C29_Witness ==
    /\ outcome.op = "add_preference"
    /\ ~outcome.raised
    /\ FactsOf(outcome.before) # <<>>
    /\ FactsOf(file) = FactsOf(outcome.before)
    /\ OtherItems(PrefsOf(outcome.before), outcome.arg[1]) # <<>>
    /\ ~HasKey(PrefsOf(outcome.before), outcome.arg[1])
    /\ Len(DictItems(PrefsOf(file), 2)) = 2

\* a generation step of the turn has failed
GenerationFailed == pc \in {"raised", "caught"} /\ error = BackendError

\* the contents of the facts the executed saveMemory calls reported as saved
SavedContents ==
    { GetKey(tool_calls_executed[i].call.arguments, "content") :
        i \in { j \in 1..Len(tool_calls_executed) :
                  /\ tool_calls_executed[j].result = <<"Fact saved to memory">>
                  /\ HasKey(tool_calls_executed[j].call.arguments, "content") } }

\* the step is the failure of a generation step, or chat catching it
FailsOrCatches ==
    /\ pc \in {"await_first", "await_second", "raised"}
    /\ pc' \in {"raised", "caught"}

\* the transcript, the executed calls and the store are as they were
KeepsWhatWasDone ==
    /\ message_history' = message_history
    /\ tool_calls_executed' = tool_calls_executed
    /\ file' = file

\* C30: no rollback on a failed turn: after a first-generation failure the
\* transcript the caller passed has exactly the new user message appended;
\* after a second-generation failure it has the user message, the first
\* assistant reply and all tool entries appended and no final assistant
\* entry, and what the executed tools wrote to the memory store is still
\* there; the failure itself, and chat's handling of it, change neither.
C30_NoRollback ==
    /\ [](GenerationFailed =>
             /\ Appended =
                    IF FailedFirst THEN <<Message("user", <<>>, runs[1])>>
                    ELSE <<Message("user", <<>>, runs[1]),
                           Message("assistant", <<>>, lastmsg)>>
                         \o ToolEntriesOf(tool_calls_executed)
             /\ SubSeq(message_history, 1, Len(history_arg)) = history_arg
             /\ ~FailedFirst => Len(tool_calls_executed) = Len(tool_calls)
             /\ \A c \in SavedContents :
                    \E i \in 1..Len(FactsOf(file)) : ContentsOf(file)[i] = c)
    /\ [][FailsOrCatches => KeepsWhatWasDone]_vars

\* the second generation step failed after a saveMemory call had stored a
\* fact, and chat has returned
C30_Witness ==
    /\ pc = "caught"
    /\ error = BackendError
    /\ ~FailedFirst
    /\ history_arg # <<>>
    /\ SavedContents = {Q("likes tea")}
    /\ \E i \in 1..Len(FactsOf(file)) : ContentsOf(file)[i] = Q("likes tea")

====
